---- MODULE Spec2Model ----
(***************************************************************************)
(* Model of the easy-reals REST backend: the series, videos and social     *)
(* controllers and the Prisma-backed services they call.                   *)
(*                                                                         *)
(* The relational store is three tables, each a function from the ids of   *)
(* the rows that exist to the row.  A request handler is one action (the   *)
(* whole handler, every store call included); the handlers whose           *)
(* interleavings matter are also given step by step, one action per        *)
(* awaited store call, for the concurrent specifications.                  *)
(***************************************************************************)
EXTENDS Integers, Sequences, FiniteSets, TLC

VARIABLES
    series,      \* table UserSeries: id -> row
    videos,      \* table Video: id -> row
    accounts,    \* table SocialAccount: id -> row
    seriesSeq,   \* number of series ids handed out so far (ids are never reused)
    videoSeq,    \* number of video ids handed out so far
    accountSeq,  \* number of social account ids handed out so far
    resp,        \* the response to the most recent request
    served,      \* number of requests answered (bounded specifications only)
    pc,          \* per in-flight request: the await point it is at
    req,         \* per in-flight request: operation, caller and arguments
    loc,         \* per in-flight request: the handler's local variables
    profiles,    \* the Profile table: profile id -> row
    posts,       \* the SocialPost table: post id -> row
    disconnected \* the social accounts deleted so far: id, owner, platform

vars == <<series, videos, accounts, seriesSeq, videoSeq, accountSeq,
          resp, served, pc, req, loc, profiles, posts, disconnected>>

stores == <<series, videos, accounts, seriesSeq, videoSeq, accountSeq>>
procVars == <<pc, req, loc>>
userVars == <<profiles, posts>>

----------------------------------------------------------------------------
(* Bounds of the model *)

MaxSeries == 1
MaxVideos == 3
MaxAccounts == 2
MaxRequests == 3
MaxCount == 3

Users == {"u1", "u2"}
SeriesIds == 1..MaxSeries
VideoIds == 1..MaxVideos
AccountIds == 1..MaxAccounts
Procs == {"p1", "p2"}

Names == {"Tips"}
Topics == {"", "Launch"}

----------------------------------------------------------------------------
(* Values *)

Has(dto, f) == f \in DOMAIN dto

\* JavaScript truthiness of a string: the empty string is falsy.
Truthy(s) == s # ""

NoResponse == [op |-> "none", caller |-> "none", target |-> 0,
               status |-> "NONE", message |-> "", arg |-> <<>>]

Response(op, caller, target, status, message) ==
    [op |-> op, caller |-> caller, target |-> target,
     status |-> status, message |-> message, arg |-> <<>>]

\* Mutant of Remove: the row is kept and marked inactive (a soft delete).
Remove_Deactivate(table, id) == [table EXCEPT ![id].isActive = FALSE]

Remove(table, id) == [i \in (DOMAIN table) \ {id} |-> table[i]]

----------------------------------------------------------------------------
(* Ownership guard: the lookup and the owner comparison every handler that  *)
(* targets one entity starts with.  The lookup comes first; the handler     *)
(* supplies the exception raised when the row is absent.                    *)

Outcome(status, message) == [status |-> status, message |-> message]

\* Mutants of Guard: the owner comparison left out; an absent row refused as
\* if it were someone else's.
Guard_NoOwnerCheck(table, id, caller, absentStatus, absentMessage, forbiddenMessage) ==
    IF id \notin DOMAIN table THEN Outcome(absentStatus, absentMessage)
    ELSE Outcome("OK", "")

Guard_AbsentForbidden(table, id, caller, absentStatus, absentMessage, forbiddenMessage) ==
    IF id \notin DOMAIN table THEN Outcome("FORBIDDEN", forbiddenMessage)
    ELSE IF table[id].userId # caller THEN Outcome("FORBIDDEN", forbiddenMessage)
    ELSE Outcome("OK", "")

Guard(table, id, caller, absentStatus, absentMessage, forbiddenMessage) ==
    IF id \notin DOMAIN table THEN Outcome(absentStatus, absentMessage)
    ELSE IF table[id].userId # caller THEN Outcome("FORBIDDEN", forbiddenMessage)
    ELSE Outcome("OK", "")

Reply(op, caller, target, g) == Response(op, caller, target, g.status, g.message)

----------------------------------------------------------------------------
(* SeriesService *)

\* Column defaults of the UserSeries table (the Prisma schema is not part of
\* the sources; the create DTO documents isActive's default).
SeriesDefaults ==
    [isActive |-> TRUE, totalVideosGenerated |-> 0, totalViews |-> 0, totalLikes |-> 0]

\* Mutant of createSeries: the owner column written with a fixed user.
SeriesService_createSeries_FixedOwner(data) ==
    [userId |-> "u1",
     name |-> data.name,
     isActive |-> IF Has(data, "isActive") THEN data.isActive ELSE SeriesDefaults.isActive,
     totalVideosGenerated |-> SeriesDefaults.totalVideosGenerated,
     totalViews |-> SeriesDefaults.totalViews,
     totalLikes |-> SeriesDefaults.totalLikes]

SeriesService_createSeries(data) ==
    [userId |-> data.userId,
     name |-> data.name,
     isActive |-> IF Has(data, "isActive") THEN data.isActive ELSE SeriesDefaults.isActive,
     totalVideosGenerated |-> SeriesDefaults.totalVideosGenerated,
     totalViews |-> SeriesDefaults.totalViews,
     totalLikes |-> SeriesDefaults.totalLikes]
    @@ [f \in (DOMAIN data) \cap {"description", "visualStyle", "voiceSettings",
                                  "musicSettings", "videoDuration"} |-> data[f]]

\* prisma.userSeries.update with the fields the DTO carries.
SeriesService_updateSeries(row, data) ==
    [row EXCEPT !.name = IF Has(data, "name") THEN data.name ELSE @,
                !.isActive = IF Has(data, "isActive") THEN data.isActive ELSE @]

SeriesService_toggleSeriesStatus(row, isActive) == [row EXCEPT !.isActive = isActive]

\* updateSeriesStats, first store call: the select of the three counters.
StatsCurrent(row) ==
    [totalVideosGenerated |-> row.totalVideosGenerated,
     totalViews |-> row.totalViews,
     totalLikes |-> row.totalLikes]

\* Mutant of StatsData: the default count is the count read, not one more.
StatsData_NoIncrement(current, stats) ==
    [totalVideosGenerated |->
        IF Has(stats, "totalVideosGenerated") THEN stats.totalVideosGenerated
        ELSE current.totalVideosGenerated,
     totalViews |-> IF Has(stats, "totalViews") THEN stats.totalViews ELSE current.totalViews,
     totalLikes |-> IF Has(stats, "totalLikes") THEN stats.totalLikes ELSE current.totalLikes]

\* updateSeriesStats: the data of its update call, from the counters it read.
StatsData(current, stats) ==
    [totalVideosGenerated |->
        IF Has(stats, "totalVideosGenerated") THEN stats.totalVideosGenerated
        ELSE current.totalVideosGenerated + 1,
     totalViews |-> IF Has(stats, "totalViews") THEN stats.totalViews ELSE current.totalViews,
     totalLikes |-> IF Has(stats, "totalLikes") THEN stats.totalLikes ELSE current.totalLikes]

\* Mutant of StatsWrite: the store adds one to the count (an atomic increment)
\* instead of storing the count computed from the earlier read.
StatsWrite_Increment(row, data) ==
    [row EXCEPT !.totalVideosGenerated = @ + 1,
                !.totalViews = data.totalViews,
                !.totalLikes = data.totalLikes]

\* updateSeriesStats, second store call: the update of the row.
StatsWrite(row, data) ==
    [row EXCEPT !.totalVideosGenerated = data.totalVideosGenerated,
                !.totalViews = data.totalViews,
                !.totalLikes = data.totalLikes]

\* updateSeriesStats with nothing running between its two store calls.
SeriesService_updateSeriesStats(row, stats) ==
    StatsWrite(row, StatsData(StatsCurrent(row), stats))

\* Rows of the Video table that go with a deleted series (the relation's
\* delete rule is in the Prisma schema, which is not part of the sources).
VideosAfterSeriesDelete(table, seriesId) ==
    [i \in {v \in DOMAIN table : table[v].seriesId # seriesId} |-> table[i]]

\* The Video table's reference to its series: the store accepts a video row
\* only while the series row exists (Prisma schema, not part of the sources).
SeriesReferenceHolds(table, seriesId) == seriesId \in DOMAIN table

----------------------------------------------------------------------------
(* VideoService *)

NoErrorMessage == "<null>"

\* Column defaults of the Video table (Prisma schema, not part of the sources).
VideoDefaults ==
    [status |-> "ready", generationProgress |-> 0, errorMessage |-> NoErrorMessage]

VideoService_createVideo(data) ==
    [userId |-> data.userId,
     seriesId |-> data.seriesId,
     title |-> data.title,
     status |-> VideoDefaults.status,
     generationProgress |-> VideoDefaults.generationProgress,
     errorMessage |-> VideoDefaults.errorMessage,
     generationSettings |->
         IF Has(data, "generationSettings") THEN data.generationSettings ELSE <<>>]

\* Mutant of updateVideoStatus: the status column is left out of the update.
VideoService_updateVideoStatus_KeepsStatus(row, status, opt) ==
    [row EXCEPT !.generationProgress =
                    IF Has(opt, "generationProgress") THEN opt.generationProgress ELSE @,
                !.errorMessage =
                    IF Has(opt, "errorMessage") /\ Truthy(opt.errorMessage)
                    THEN opt.errorMessage ELSE @]

\* opt carries the optional arguments progress and errorMessage when given.
VideoService_updateVideoStatus(row, status, opt) ==
    [row EXCEPT !.status = status,
                !.generationProgress =
                    IF Has(opt, "generationProgress") THEN opt.generationProgress ELSE @,
                !.errorMessage =
                    IF Has(opt, "errorMessage") /\ Truthy(opt.errorMessage)
                    THEN opt.errorMessage ELSE @]

VideoService_updateVideoContent(row, data) ==
    [row EXCEPT !.title = IF Has(data, "title") THEN data.title ELSE @,
                !.status = "ready",
                !.generationProgress = 100]

----------------------------------------------------------------------------
(* SeriesController: one action per handler, answering in resp.             *)

\* A run of this specification answers at most MaxRequests requests.
Served ==
    /\ served < MaxRequests
    /\ served' = served + 1
    /\ UNCHANGED <<procVars, userVars>>

Answered == Served /\ UNCHANGED disconnected

createSeries(caller, dto) ==
    /\ Answered
    /\ seriesSeq < MaxSeries
    /\ seriesSeq' = seriesSeq + 1
    /\ series' = series @@
         ((seriesSeq + 1) :> SeriesService_createSeries([userId |-> caller] @@ dto))
    /\ resp' = Response("createSeries", caller, seriesSeq + 1, "OK", "")
    /\ UNCHANGED <<videos, accounts, videoSeq, accountSeq>>

getSeriesById(caller, id) ==
    /\ Answered
    /\ resp' = Reply("getSeriesById", caller, id,
                     Guard(series, id, caller, "NOT_FOUND", "Series not found",
                           "You can only access your own series"))
    /\ UNCHANGED stores

updateSeries(caller, id, dto) ==
    LET g == Guard(series, id, caller, "NOT_FOUND", "Series not found",
                   "You can only update your own series")
    IN /\ Answered
       /\ resp' = Reply("updateSeries", caller, id, g)
       /\ series' = IF g.status = "OK"
                    THEN [series EXCEPT ![id] = SeriesService_updateSeries(@, dto)]
                    ELSE series
       /\ UNCHANGED <<videos, accounts, seriesSeq, videoSeq, accountSeq>>

toggleSeriesStatus(caller, id, isActive) ==
    LET g == Guard(series, id, caller, "NOT_FOUND", "Series not found",
                   "You can only modify your own series")
    IN /\ Answered
       /\ resp' = Reply("toggleSeriesStatus", caller, id, g)
       /\ series' = IF g.status = "OK"
                    THEN [series EXCEPT ![id] = SeriesService_toggleSeriesStatus(@, isActive)]
                    ELSE series
       /\ UNCHANGED <<videos, accounts, seriesSeq, videoSeq, accountSeq>>

deleteSeries(caller, id) ==
    LET g == Guard(series, id, caller, "NOT_FOUND", "Series not found",
                   "You can only delete your own series")
    IN /\ Answered
       /\ resp' = Reply("deleteSeries", caller, id, g)
       /\ series' = IF g.status = "OK" THEN Remove(series, id) ELSE series
       /\ videos' = IF g.status = "OK" THEN VideosAfterSeriesDelete(videos, id) ELSE videos
       /\ UNCHANGED <<accounts, seriesSeq, videoSeq, accountSeq>>

getSeriesAnalytics(caller, id) ==
    /\ Answered
    /\ resp' = Reply("getSeriesAnalytics", caller, id,
                     Guard(series, id, caller, "NOT_FOUND", "Series not found",
                           "You can only access your own series analytics"))
    /\ UNCHANGED stores

----------------------------------------------------------------------------
(* VideosController *)

\* Mutant of GenerateVideoCheck: the isActive precondition left out.
GenerateVideoCheck_NoActiveCheck(table, caller, seriesId) ==
    Guard(table, seriesId, caller, "BAD_REQUEST", "Series not found",
          "You can only generate videos in your own series")

\* generateVideo's checks before it writes: the series lookup, the owner
\* comparison and the precondition that the series is active.
GenerateVideoCheck(table, caller, seriesId) ==
    LET g == Guard(table, seriesId, caller, "BAD_REQUEST", "Series not found",
                   "You can only generate videos in your own series")
    IN IF g.status # "OK" THEN g
       ELSE IF ~table[seriesId].isActive
            THEN Outcome("BAD_REQUEST", "Cannot generate videos for inactive series")
            ELSE g

\* Mutant of GenerateVideoTitle: the episode number is the count, not one more.
GenerateVideoTitle_NoIncrement(dto, s) ==
    IF Has(dto, "topic") /\ Truthy(dto.topic) THEN dto.topic
    ELSE s.name \o " Episode " \o ToString(s.totalVideosGenerated)

\* The title of a generated video: topic || `${name} Episode ${count + 1}`.
GenerateVideoTitle(dto, s) ==
    IF Has(dto, "topic") /\ Truthy(dto.topic) THEN dto.topic
    ELSE s.name \o " Episode " \o ToString(s.totalVideosGenerated + 1)

\* `series.<json column> || {}` and a scalar column of the series row (null
\* when the series has none).
JsonColumn(s, f) == IF Has(s, f) THEN s[f] ELSE <<>>
Column(s, f) == IF Has(s, f) THEN s[f] ELSE "null"

\* { ...a, ...b }: the keys of both, b winning on the keys they share.
Spread(a, b) == b @@ a

\* The generationSettings object literal of generateVideo.
GenerationSettings(dto, s) ==
    Spread(Spread(Spread(Spread(Spread(JsonColumn(s, "visualStyle"),
                                       JsonColumn(s, "voiceSettings")),
                                JsonColumn(s, "musicSettings")),
                         [duration |-> Column(s, "videoDuration"),
                          style |-> Column(s, "contentStyle"),
                          useTrending |-> Column(s, "useTrendingTopics")]),
                  [priority |-> IF Has(dto, "priority") /\ Truthy(dto.priority)
                                THEN dto.priority ELSE "normal"]),
           JsonColumn(dto, "generationSettings"))

GenerateVideoData(caller, dto, s) ==
    [userId |-> caller, seriesId |-> dto.seriesId, title |-> GenerateVideoTitle(dto, s),
     generationSettings |-> GenerationSettings(dto, s)]

createVideo(caller, dto) ==
    LET g == Guard(series, dto.seriesId, caller, "BAD_REQUEST", "Series not found",
                   "You can only create videos in your own series")
    IN /\ Answered
       /\ g.status = "OK" => videoSeq < MaxVideos
       /\ resp' = Reply("createVideo", caller, dto.seriesId, g)
       /\ videos' = IF g.status = "OK"
                    THEN videos @@ ((videoSeq + 1) :>
                           VideoService_createVideo([userId |-> caller] @@ dto))
                    ELSE videos
       /\ videoSeq' = IF g.status = "OK" THEN videoSeq + 1 ELSE videoSeq
       /\ UNCHANGED <<series, accounts, seriesSeq, accountSeq>>

generateVideo(caller, dto) ==
    LET g == GenerateVideoCheck(series, caller, dto.seriesId)
        s == series[dto.seriesId]
        created == VideoService_createVideo(GenerateVideoData(caller, dto, s))
        queued == VideoService_updateVideoStatus(created, "queued", [generationProgress |-> 0])
    IN /\ Answered
       /\ g.status = "OK" => videoSeq < MaxVideos
       /\ resp' = [Reply("generateVideo", caller, dto.seriesId, g) EXCEPT !.arg = dto]
       /\ videos' = IF g.status = "OK" THEN videos @@ ((videoSeq + 1) :> queued) ELSE videos
       /\ videoSeq' = IF g.status = "OK" THEN videoSeq + 1 ELSE videoSeq
       /\ series' = IF g.status = "OK"
                    THEN [series EXCEPT ![dto.seriesId] =
                            SeriesService_updateSeriesStats(@,
                              [totalVideosGenerated |-> s.totalVideosGenerated + 1])]
                    ELSE series
       /\ UNCHANGED <<accounts, seriesSeq, accountSeq>>

getVideoById(caller, id) ==
    /\ Answered
    /\ resp' = Reply("getVideoById", caller, id,
                     Guard(videos, id, caller, "NOT_FOUND", "Video not found",
                           "You can only access your own videos"))
    /\ UNCHANGED stores

\* The fields updateVideo copies into updateData.
UpdateVideoData(dto) ==
    IF Has(dto, "title") /\ Truthy(dto.title) THEN [title |-> dto.title] ELSE <<>>

\* The optional arguments updateVideo passes to updateVideoStatus.
UpdateVideoStatusArgs(dto) ==
    [f \in (DOMAIN dto) \cap {"generationProgress", "errorMessage"} |-> dto[f]]

\* The row after updateVideo's store calls.
UpdateVideoRow(row, dto) ==
    LET afterStatus == IF Has(dto, "status") /\ Truthy(dto.status)
                       THEN VideoService_updateVideoStatus(row, dto.status,
                                                           UpdateVideoStatusArgs(dto))
                       ELSE row
    IN IF DOMAIN UpdateVideoData(dto) # {}
       THEN VideoService_updateVideoContent(afterStatus, UpdateVideoData(dto))
       ELSE afterStatus

updateVideo(caller, id, dto) ==
    LET g == Guard(videos, id, caller, "NOT_FOUND", "Video not found",
                   "You can only update your own videos")
    IN /\ Answered
       /\ resp' = Reply("updateVideo", caller, id, g)
       /\ videos' = IF g.status = "OK"
                    THEN [videos EXCEPT ![id] = UpdateVideoRow(@, dto)]
                    ELSE videos
       /\ UNCHANGED <<series, accounts, seriesSeq, videoSeq, accountSeq>>

deleteVideo(caller, id) ==
    LET g == Guard(videos, id, caller, "NOT_FOUND", "Video not found",
                   "You can only delete your own videos")
    IN /\ Answered
       /\ resp' = Reply("deleteVideo", caller, id, g)
       /\ videos' = IF g.status = "OK" THEN Remove(videos, id) ELSE videos
       /\ UNCHANGED <<series, accounts, seriesSeq, videoSeq, accountSeq>>

----------------------------------------------------------------------------
(* Response DTOs.  The handlers build their bodies with                     *)
(* plainToClass(Dto, plain) and no options, and the controllers serialise   *)
(* them with ClassSerializerInterceptor and no options: every property of   *)
(* the plain object is kept except the ones the class marks @Exclude(),     *)
(* and a nested object the class declares no type for is kept as it is.     *)

\* The properties SocialAccountResponseDto marks @Exclude().
SocialAccountResponseDto_Exclude == {"accessToken", "refreshToken"}

\* ProfileResponseDto marks no property @Exclude().
ProfileResponseDto_Exclude == {}

plainToClass(excluded, plain) == [f \in (DOMAIN plain) \ excluded |-> plain[f]]

----------------------------------------------------------------------------
(* SocialAccountService *)

\* Column defaults of the SocialAccount table (Prisma schema, not part of the
\* sources; the DTOs document both defaults).
AccountDefaults == [isActive |-> TRUE, autoPost |-> TRUE]

SocialAccountService_connectAccount(data) ==
    [userId |-> data.userId,
     platform |-> data.platform,
     platformUserId |-> data.platformUserId,
     isActive |-> AccountDefaults.isActive,
     autoPost |-> IF Has(data, "autoPost") THEN data.autoPost ELSE AccountDefaults.autoPost,
     lastSyncAt |-> "null"]
    @@ [f \in (DOMAIN data) \cap {"accessToken", "refreshToken", "tokenExpiresAt"} |-> data[f]]

\* Mutant of getSocialAccountByPlatform: the isActive filter inverted.
SocialAccountService_getSocialAccountByPlatform_Inactive(table, userId, platform) ==
    {i \in DOMAIN table : /\ table[i].userId = userId
                          /\ table[i].platform = platform
                          /\ ~table[i].isActive}

\* findFirst where userId, platform, isActive: the ids of the rows it may return.
SocialAccountService_getSocialAccountByPlatform(table, userId, platform) ==
    {i \in DOMAIN table : /\ table[i].userId = userId
                          /\ table[i].platform = platform
                          /\ table[i].isActive}

\* The row's timestamp column, kept as set or not set.
SocialAccountService_updateSocialAccount(row, data) ==
    [row EXCEPT !.platform = IF Has(data, "platform") THEN data.platform ELSE @,
                !.platformUserId = IF Has(data, "platformUserId") THEN data.platformUserId ELSE @,
                !.isActive = IF Has(data, "isActive") THEN data.isActive ELSE @,
                !.autoPost = IF Has(data, "autoPost") THEN data.autoPost ELSE @,
                !.lastSyncAt = "date"]

SocialAccountService_updateAccountMetrics(row, metrics) == [row EXCEPT !.lastSyncAt = "date"]

SocialAccountService_toggleAutoPost(row, autoPost) == [row EXCEPT !.autoPost = autoPost]

\* The table's unique key, which the store answers with P2002: one row per
\* platform identity of a user (Prisma schema, not part of the sources).
UniqueKeyTaken(table, id, row) ==
    \E i \in (DOMAIN table) \ {id} :
        /\ table[i].userId = row.userId
        /\ table[i].platform = row.platform
        /\ table[i].platformUserId = row.platformUserId

----------------------------------------------------------------------------
(* SocialController *)

connectSocialAccount(caller, dto) ==
    LET existing == SocialAccountService_getSocialAccountByPlatform(accounts, caller, dto.platform)
        row == SocialAccountService_connectAccount([userId |-> caller] @@ dto)
        g == IF existing # {}
             THEN Outcome("CONFLICT", dto.platform \o
                    " account is already connected. Disconnect the existing one first.")
             ELSE IF UniqueKeyTaken(accounts, 0, row)
                  THEN Outcome("CONFLICT", "This social account is already connected")
                  ELSE Outcome("OK", "")
    IN /\ Answered
       /\ g.status = "OK" => accountSeq < MaxAccounts
       /\ resp' = [Response("connectSocialAccount", caller, 0, g.status, g.message)
                     EXCEPT !.arg = dto]
       /\ accounts' = IF g.status = "OK" THEN accounts @@ ((accountSeq + 1) :> row) ELSE accounts
       /\ accountSeq' = IF g.status = "OK" THEN accountSeq + 1 ELSE accountSeq
       /\ UNCHANGED <<series, videos, seriesSeq, videoSeq>>

getSocialAccountById(caller, id) ==
    LET g == Guard(accounts, id, caller, "NOT_FOUND", "Social account not found",
                   "You can only access your own social accounts")
    IN /\ Answered
       /\ resp' = [Reply("getSocialAccountById", caller, id, g)
                     EXCEPT !.arg = IF g.status = "OK"
                                    THEN [body |-> plainToClass(SocialAccountResponseDto_Exclude,
                                                                accounts[id])]
                                    ELSE <<>>]
       /\ UNCHANGED stores

\* An update that collides with the unique key fails in the store with P2002,
\* which the handler rethrows and the exception filter answers with 409.
updateSocialAccount(caller, id, dto) ==
    LET g == Guard(accounts, id, caller, "NOT_FOUND", "Social account not found",
                   "You can only update your own social accounts")
        row == SocialAccountService_updateSocialAccount(accounts[id], dto)
        r == IF g.status = "OK" /\ UniqueKeyTaken(accounts, id, row)
             THEN Outcome("CONFLICT", "A record with this field already exists")
             ELSE g
    IN /\ Answered
       /\ resp' = Reply("updateSocialAccount", caller, id, r)
       /\ accounts' = IF r.status = "OK" THEN [accounts EXCEPT ![id] = row] ELSE accounts
       /\ UNCHANGED <<series, videos, seriesSeq, videoSeq, accountSeq>>

toggleAutoPost(caller, id, autoPost) ==
    LET g == Guard(accounts, id, caller, "NOT_FOUND", "Social account not found",
                   "You can only modify your own social accounts")
    IN /\ Answered
       /\ resp' = Reply("toggleAutoPost", caller, id, g)
       /\ accounts' = IF g.status = "OK"
                      THEN [accounts EXCEPT ![id] =
                              SocialAccountService_toggleAutoPost(@, autoPost)]
                      ELSE accounts
       /\ UNCHANGED <<series, videos, seriesSeq, videoSeq, accountSeq>>

syncSocialAccount(caller, id) ==
    LET g == Guard(accounts, id, caller, "NOT_FOUND", "Social account not found",
                   "You can only sync your own social accounts")
    IN /\ Answered
       /\ resp' = Reply("syncSocialAccount", caller, id, g)
       /\ accounts' = IF g.status = "OK"
                      THEN [accounts EXCEPT ![id] =
                              SocialAccountService_updateAccountMetrics(@, <<>>)]
                      ELSE accounts
       /\ UNCHANGED <<series, videos, seriesSeq, videoSeq, accountSeq>>

disconnectSocialAccount(caller, id) ==
    LET g == Guard(accounts, id, caller, "NOT_FOUND", "Social account not found",
                   "You can only disconnect your own social accounts")
    IN /\ Served
       /\ resp' = Reply("disconnectSocialAccount", caller, id, g)
       /\ accounts' = IF g.status = "OK" THEN Remove(accounts, id) ELSE accounts
       /\ disconnected' = IF g.status = "OK"
                          THEN disconnected \cup {[id |-> id, userId |-> accounts[id].userId,
                                                   platform |-> accounts[id].platform]}
                          ELSE disconnected
       /\ UNCHANGED <<series, videos, seriesSeq, videoSeq, accountSeq>>

getSocialAccountAnalytics(caller, id) ==
    /\ Answered
    /\ resp' = Reply("getSocialAccountAnalytics", caller, id,
                     Guard(accounts, id, caller, "NOT_FOUND", "Social account not found",
                           "You can only access your own social account analytics"))
    /\ UNCHANGED stores


----------------------------------------------------------------------------
(* Requests in flight.  A handler that awaits several store calls is a      *)
(* process: one action per store call, other requests free to run between   *)
(* them.  pc = "idle": no request; "done": answered, result in loc.         *)

Fail(p, status, message) ==
    /\ pc' = [pc EXCEPT ![p] = "done"]
    /\ loc' = [loc EXCEPT ![p] = @ @@ [result |-> Outcome(status, message)]]

finish(p) ==
    /\ pc[p] = "done"
    /\ pc' = [pc EXCEPT ![p] = "idle"]
    /\ req' = [req EXCEPT ![p] = <<>>]
    /\ loc' = [loc EXCEPT ![p] = <<>>]
    /\ UNCHANGED <<stores, resp, served, userVars, disconnected>>

(* SeriesService.updateSeriesStats, called on its own *)

callUpdateSeriesStats(p, id, stats) ==
    /\ pc[p] = "idle"
    /\ id \in DOMAIN series => series[id].totalVideosGenerated < MaxCount
    /\ pc' = [pc EXCEPT ![p] = "stats_find"]
    /\ req' = [req EXCEPT ![p] = [op |-> "updateSeriesStats", seriesId |-> id, stats |-> stats]]
    /\ loc' = [loc EXCEPT ![p] = <<>>]
    /\ UNCHANGED <<stores, resp, served, userVars, disconnected>>

\* updateSeriesStats: findUnique, and the Error thrown when there is no row.
updateSeriesStats_find(p) ==
    /\ pc[p] = "stats_find"
    /\ IF req[p].seriesId \in DOMAIN series
       THEN /\ pc' = [pc EXCEPT ![p] = "stats_update"]
            /\ loc' = [loc EXCEPT ![p] = @ @@ [current |-> StatsCurrent(series[req[p].seriesId])]]
       ELSE Fail(p, "INTERNAL", "Internal server error")
    /\ UNCHANGED <<stores, resp, served, userVars, disconnected, req>>

\* updateSeriesStats: update, which the store fails with P2025 when the row
\* is gone (answered 404 by the exception filter).
updateSeriesStats_update(p) ==
    LET id == req[p].seriesId
    IN /\ pc[p] = "stats_update"
       /\ IF id \in DOMAIN series
          THEN /\ series' = [series EXCEPT ![id] =
                               StatsWrite(@, StatsData(loc[p].current, req[p].stats))]
               /\ pc' = [pc EXCEPT ![p] = "done"]
               /\ loc' = [loc EXCEPT ![p] = @ @@ [result |-> Outcome("OK", "")]]
          ELSE /\ Fail(p, "NOT_FOUND", "Record not found")
               /\ UNCHANGED series
       /\ UNCHANGED <<videos, accounts, seriesSeq, videoSeq, accountSeq, resp, served, userVars, disconnected, req>>

(* VideosController.generateVideo, store call by store call *)

generateVideo_lookup(p, caller, dto) ==
    LET g == GenerateVideoCheck(series, caller, dto.seriesId)
    IN /\ pc[p] = "idle"
       /\ req' = [req EXCEPT ![p] = [op |-> "generateVideo", caller |-> caller,
                                     seriesId |-> dto.seriesId, dto |-> dto]]
       /\ IF g.status = "OK"
          THEN /\ pc' = [pc EXCEPT ![p] = "gv_create"]
               /\ loc' = [loc EXCEPT ![p] = [series |-> series[dto.seriesId]]]
          ELSE /\ pc' = [pc EXCEPT ![p] = "done"]
               /\ loc' = [loc EXCEPT ![p] = [result |-> g]]
       /\ UNCHANGED <<stores, resp, served, userVars, disconnected>>

\* videoService.createVideo, which the store refuses (P2003, answered 400 by
\* the exception filter) when the series row is gone.
generateVideo_create(p) ==
    /\ pc[p] = "gv_create"
    /\ videoSeq < MaxVideos
    /\ IF SeriesReferenceHolds(series, req[p].seriesId)
       THEN /\ videoSeq' = videoSeq + 1
            /\ videos' = videos @@ ((videoSeq + 1) :>
                  VideoService_createVideo(
                      GenerateVideoData(req[p].caller, req[p].dto, loc[p].series)))
            /\ pc' = [pc EXCEPT ![p] = "gv_queue"]
            /\ loc' = [loc EXCEPT ![p] = @ @@ [video |-> videoSeq + 1]]
       ELSE /\ Fail(p, "BAD_REQUEST", "Foreign key constraint failed")
            /\ UNCHANGED <<videos, videoSeq>>
    /\ UNCHANGED <<series, accounts, seriesSeq, accountSeq, resp, served, userVars, disconnected, req>>

\* updateVideoStatus(video.id, 'queued', 0), then the call of updateSeriesStats
\* with the count the handler read at its start.
generateVideo_queue(p) ==
    LET vid == loc[p].video
    IN /\ pc[p] = "gv_queue"
       /\ IF vid \in DOMAIN videos
          THEN /\ videos' = [videos EXCEPT ![vid] =
                     VideoService_updateVideoStatus(@, "queued", [generationProgress |-> 0])]
               /\ pc' = [pc EXCEPT ![p] = "stats_find"]
               /\ req' = [req EXCEPT ![p] = @ @@
                     [stats |-> [totalVideosGenerated |->
                                   loc[p].series.totalVideosGenerated + 1]]]
               /\ UNCHANGED loc
          ELSE /\ Fail(p, "NOT_FOUND", "Record not found")
               /\ UNCHANGED <<videos, req>>
       /\ UNCHANGED <<series, accounts, seriesSeq, videoSeq, accountSeq, resp, served, userVars, disconnected>>


----------------------------------------------------------------------------
(* Request bodies *)

CreateSeriesDtos ==
    {[name |-> n] : n \in Names} \cup
    {[name |-> n, isActive |-> a] : n \in Names, a \in BOOLEAN}

UpdateSeriesDtos ==
    {[name |-> n] : n \in Names} \cup {[isActive |-> a] : a \in BOOLEAN}

CreateVideoDtos == {[seriesId |-> sid, title |-> "Intro"] : sid \in SeriesIds}

GenerateVideoDtos ==
    {[seriesId |-> sid] : sid \in SeriesIds} \cup
    {[seriesId |-> sid, topic |-> t] : sid \in SeriesIds, t \in Topics}

VideoStatuses == {"generating", "completed", "failed", "queued", "processing"}

UpdateVideoDtos ==
    {[title |-> "Recut"], [generationProgress |-> 50], [errorMessage |-> "boom"]}
    \cup {[status |-> st] : st \in VideoStatuses}
    \cup {[status |-> "failed", errorMessage |-> "boom"],
          [status |-> "processing", generationProgress |-> 50],
          [status |-> "completed", title |-> "Recut"]}

Platforms == {"youtube", "tiktok"}
PlatformUserIds == {"UC1", "UC2"}

ConnectSocialAccountDtos ==
    {[platform |-> pl, platformUserId |-> pu] : pl \in Platforms, pu \in PlatformUserIds}
    \cup {[platform |-> "youtube", platformUserId |-> "UC1", autoPost |-> FALSE]}

UpdateSocialAccountDtos ==
    {[isActive |-> a] : a \in BOOLEAN}
    \cup {[platform |-> pl] : pl \in Platforms}
    \cup {[platformUserId |-> pu] : pu \in PlatformUserIds}

----------------------------------------------------------------------------
(* The endpoints, one request at a time *)

Init ==
    /\ series = <<>>
    /\ videos = <<>>
    /\ accounts = <<>>
    /\ seriesSeq = 0
    /\ videoSeq = 0
    /\ accountSeq = 0
    /\ resp = NoResponse
    /\ served = 0
    /\ pc = [p \in Procs |-> "idle"]
    /\ req = [p \in Procs |-> <<>>]
    /\ loc = [p \in Procs |-> <<>>]
    /\ profiles = <<>>
    /\ posts = <<>>
    /\ disconnected = {}

NextContent ==
    \/ \E c \in Users, dto \in CreateSeriesDtos : createSeries(c, dto)
    \/ \E c \in Users, id \in SeriesIds : getSeriesById(c, id)
    \/ \E c \in Users, id \in SeriesIds, dto \in UpdateSeriesDtos : updateSeries(c, id, dto)
    \/ \E c \in Users, id \in SeriesIds, a \in BOOLEAN : toggleSeriesStatus(c, id, a)
    \/ \E c \in Users, id \in SeriesIds : deleteSeries(c, id)
    \/ \E c \in Users, id \in SeriesIds : getSeriesAnalytics(c, id)
    \/ \E c \in Users, dto \in CreateVideoDtos : createVideo(c, dto)
    \/ \E c \in Users, dto \in GenerateVideoDtos : generateVideo(c, dto)
    \/ \E c \in Users, id \in VideoIds : getVideoById(c, id)
    \/ \E c \in Users, id \in VideoIds, dto \in UpdateVideoDtos : updateVideo(c, id, dto)
    \/ \E c \in Users, id \in VideoIds : deleteVideo(c, id)

NextSocial ==
    \/ \E c \in Users, dto \in ConnectSocialAccountDtos : connectSocialAccount(c, dto)
    \/ \E c \in Users, id \in AccountIds : getSocialAccountById(c, id)
    \/ \E c \in Users, id \in AccountIds, dto \in UpdateSocialAccountDtos :
          updateSocialAccount(c, id, dto)
    \/ \E c \in Users, id \in AccountIds, a \in BOOLEAN : toggleAutoPost(c, id, a)
    \/ \E c \in Users, id \in AccountIds : syncSocialAccount(c, id)
    \/ \E c \in Users, id \in AccountIds : disconnectSocialAccount(c, id)
    \/ \E c \in Users, id \in AccountIds : getSocialAccountAnalytics(c, id)

Next == NextContent \/ NextSocial

Spec == Init /\ [][Next]_vars

\* The social account endpoints alone.
SpecSocial == Init /\ [][NextSocial]_vars

----------------------------------------------------------------------------
(* SeriesService.updateSeriesStats called concurrently.  No endpoint calls   *)
(* it but generateVideo, so the series row it is called on is drawn here.   *)

StatsArgs ==
    {<<>>, [totalViews |-> 5], [totalVideosGenerated |-> 1, totalLikes |-> 2]}

InitStats ==
    /\ \E u \in Users, n \in 0..1, v \in {0, 5}, l \in {0, 2} :
          series = (1 :> [SeriesService_createSeries([userId |-> u, name |-> "Tips"])
                            EXCEPT !.totalVideosGenerated = n,
                                   !.totalViews = v,
                                   !.totalLikes = l])
    /\ videos = <<>>
    /\ accounts = <<>>
    /\ seriesSeq = 1
    /\ videoSeq = 0
    /\ accountSeq = 0
    /\ resp = NoResponse
    /\ served = 0
    /\ pc = [p \in Procs |-> "idle"]
    /\ req = [p \in Procs |-> <<>>]
    /\ loc = [p \in Procs |-> <<>>]
    /\ profiles = <<>>
    /\ posts = <<>>
    /\ disconnected = {}

NextStats ==
    \/ \E p \in Procs, id \in SeriesIds, stats \in StatsArgs : callUpdateSeriesStats(p, id, stats)
    \/ \E p \in Procs : updateSeriesStats_find(p)
    \/ \E p \in Procs : updateSeriesStats_update(p)
    \/ \E p \in Procs : finish(p)

SpecStats == InitStats /\ [][NextStats]_vars

(* generateVideo requests interleaved with each other and with the series   *)
(* and video handlers that change what they read                            *)

NextConc ==
    \/ \E c \in Users, dto \in CreateSeriesDtos : createSeries(c, dto)
    \/ \E c \in Users, id \in SeriesIds, a \in BOOLEAN : toggleSeriesStatus(c, id, a)
    \/ \E c \in Users, id \in SeriesIds : deleteSeries(c, id)
    \/ \E c \in Users, id \in VideoIds : deleteVideo(c, id)
    \/ \E p \in Procs, c \in Users, sid \in SeriesIds :
          generateVideo_lookup(p, c, [seriesId |-> sid])
    \/ \E p \in Procs : generateVideo_create(p)
    \/ \E p \in Procs : generateVideo_queue(p)
    \/ \E p \in Procs : updateSeriesStats_find(p)
    \/ \E p \in Procs : updateSeriesStats_update(p)
    \/ \E p \in Procs : finish(p)

SpecConc == Init /\ [][NextConc]_vars


----------------------------------------------------------------------------
(* The list endpoints.  Lists are sequences of ids in the order the store   *)
(* returns them: createdAt descending, which is id descending.              *)

MaxListed == 3
MaxPage == 3
MaxLimit == 2

DefaultPage == 1
DefaultLimit == 10
DefaultTake == 20

RECURSIVE Descending(_)
\* The ids of a set as a sequence, largest first (orderBy createdAt desc).
Descending(ids) ==
    IF ids = {} THEN <<>>
    ELSE LET top == CHOOSE i \in ids : \A j \in ids : j <= i
         IN <<top>> \o Descending(ids \ {top})


\* Mutant of Slice: the first end - start elements, whatever the start.
Slice_FromStart(list, start, end) ==
    SubSeq(list, 1, IF end - start < Len(list) THEN end - start ELSE Len(list))

\* Array.prototype.slice(start, end) with 0 <= start <= end.
Slice(list, start, end) ==
    SubSeq(list, start + 1, IF end < Len(list) THEN end ELSE Len(list))

\* String.prototype.toLowerCase over the letters the model's strings use.
LowerOf(c) ==
    CASE c = "T" -> "t" [] c = "I" -> "i" [] c = "P" -> "p" [] c = "E" -> "e"
      [] c = "J" -> "j"
      [] OTHER -> c

RECURSIVE ToLowerCase(_)
ToLowerCase(s) ==
    IF Len(s) = 0 THEN ""
    ELSE LowerOf(SubSeq(s, 1, 1)) \o ToLowerCase(SubSeq(s, 2, Len(s)))

\* String.prototype.includes.
Includes(s, t) ==
    \E i \in 1..(Len(s) - Len(t) + 1) : SubSeq(s, i, i + Len(t) - 1) = t

\* Mutant of Ceil: the quotient rounded down.
Ceil_Floor(a, b) == a \div b

\* Math.ceil(a / b) for a >= 0 and b >= 1.
Ceil(a, b) == IF a % b = 0 THEN a \div b ELSE (a \div b) + 1

\* new PaginatedResponseDto(data, total, page, limit)
PaginatedResponseDto(data, total, page, limit) ==
    LET totalPages == Ceil(total, limit)
    IN [data |-> data,
        meta |-> [page |-> page, limit |-> limit, total |-> total,
                  totalPages |-> totalPages,
                  hasNext |-> page < totalPages,
                  hasPrev |-> page > 1]]

\* paginationDto.page || 1 and paginationDto.limit || 10
PageOf(query) == IF Has(query, "page") /\ query.page # 0 THEN query.page ELSE DefaultPage
LimitOf(query) == IF Has(query, "limit") /\ query.limit # 0 THEN query.limit ELSE DefaultLimit

SeriesService_getUserSeries(table, userId) ==
    Descending({i \in DOMAIN table : table[i].userId = userId})

\* SeriesController.getUserSeries: filters, slice and response body.
UserSeriesPage(table, caller, query) ==
    LET all == SeriesService_getUserSeries(table, caller)
        ByActive(i) == table[i].isActive = query.isActive
        BySearch(i) ==
            \/ Includes(ToLowerCase(table[i].name), ToLowerCase(query.search))
            \/ /\ Has(table[i], "description")
               /\ Includes(ToLowerCase(table[i].description), ToLowerCase(query.search))
        active == IF Has(query, "isActive") THEN SelectSeq(all, ByActive) ELSE all
        filteredSeries == IF Has(query, "search") /\ Truthy(query.search)
                          THEN SelectSeq(active, BySearch) ELSE active
        page == PageOf(query)
        limit == LimitOf(query)
        startIndex == (page - 1) * limit
        endIndex == startIndex + limit
    IN PaginatedResponseDto(Slice(filteredSeries, startIndex, endIndex),
                            Len(filteredSeries), page, limit)

\* VideoService.getUserVideos: findMany with where, orderBy, take and skip.
VideoService_getUserVideos(table, userId, options) ==
    LET Where(i) == /\ table[i].userId = userId
                    /\ (Has(options, "status") /\ Truthy(options.status))
                           => table[i].status = options.status
                    /\ (Has(options, "seriesId") /\ options.seriesId # 0)
                           => table[i].seriesId = options.seriesId
        found == Descending({i \in DOMAIN table : Where(i)})
        take == IF options.limit # 0 THEN options.limit ELSE DefaultTake
        skip == options.offset
    IN Slice(found, skip, skip + take)

\* VideosController.getUserVideos: store page, search filter and response body.
UserVideosPage(table, caller, query) ==
    LET page == PageOf(query)
        limit == LimitOf(query)
        offset == (page - 1) * limit
        options == [f \in (DOMAIN query) \cap {"status", "seriesId"} |-> query[f]]
                   @@ [limit |-> limit, offset |-> offset]
        found == VideoService_getUserVideos(table, caller, options)
        BySearch(i) == Includes(ToLowerCase(table[i].title), ToLowerCase(query.search))
        filteredVideos == IF Has(query, "search") /\ Truthy(query.search)
                          THEN SelectSeq(found, BySearch) ELSE found
    IN PaginatedResponseDto(filteredVideos, Len(filteredVideos), page, limit)

\* Mutant of getUserSocialAccounts: the where clause left out.
SocialAccountService_getUserSocialAccounts_AllUsers(table, userId) ==
    Descending(DOMAIN table)

\* findMany where userId, orderBy connectedAt desc.
SocialAccountService_getUserSocialAccounts(table, userId) ==
    Descending({i \in DOMAIN table : table[i].userId = userId})

\* SocialController.getUserSocialAccounts: platform and isActive filters, and
\* the response DTO of each account left (recentStats, computed from the
\* account's posts, is left out of the body).
UserSocialAccounts(table, caller, query) ==
    LET accountList == SocialAccountService_getUserSocialAccounts(table, caller)
        ByPlatform(i) == table[i].platform = query.platform
        ByActive(i) == table[i].isActive = query.isActive
        onPlatform == IF Has(query, "platform") /\ Truthy(query.platform)
                      THEN SelectSeq(accountList, ByPlatform) ELSE accountList
        filteredAccounts == IF Has(query, "isActive")
                            THEN SelectSeq(onPlatform, ByActive) ELSE onPlatform
    IN [k \in 1..Len(filteredAccounts) |->
          plainToClass(SocialAccountResponseDto_Exclude,
                       [id |-> filteredAccounts[k]] @@ table[filteredAccounts[k]])]

\* A list request is answered once in a run: the handlers only read, so a
\* second request would find the store the first one found.
AnsweredOnce ==
    /\ served = 0
    /\ served' = 1
    /\ UNCHANGED <<procVars, userVars, disconnected>>

\* The query strings of a list request.
PageQueries ==
    {<<>>} \cup {[page |-> pg, limit |-> lm] : pg \in 1..MaxPage, lm \in 1..MaxLimit}

SearchTerms == {"TIP", "zz"}

Extend(queries, field, values) ==
    queries \cup {q @@ (field :> v) : q \in queries, v \in values}

SeriesListQueries ==
    Extend(Extend(PageQueries, "isActive", BOOLEAN), "search", SearchTerms)

VideoListQueries ==
    Extend(Extend(Extend(PageQueries, "status", {"queued"}), "seriesId", {1}),
           "search", SearchTerms)

getUserSeries ==
    /\ AnsweredOnce
    /\ \E caller \in Users, query \in SeriesListQueries :
          resp' = [Response("getUserSeries", caller, 0, "OK", "")
                     EXCEPT !.arg = [query |-> query,
                                     body |-> UserSeriesPage(series, caller, query)]]
    /\ UNCHANGED stores

AccountListQueries ==
    Extend(Extend({<<>>}, "platform", {"youtube"}), "isActive", BOOLEAN)

getUserSocialAccounts ==
    /\ AnsweredOnce
    /\ \E caller \in Users, query \in AccountListQueries :
          resp' = [Response("getUserSocialAccounts", caller, 0, "OK", "")
                     EXCEPT !.arg = [query |-> query,
                                     body |-> UserSocialAccounts(accounts, caller, query)]]
    /\ UNCHANGED stores

getUserVideos ==
    /\ AnsweredOnce
    /\ \E caller \in Users, query \in VideoListQueries :
          resp' = [Response("getUserVideos", caller, 0, "OK", "")
                     EXCEPT !.arg = [query |-> query,
                                     body |-> UserVideosPage(videos, caller, query)]]
    /\ UNCHANGED stores

\* The stores the list endpoints are run against: up to MaxListed series of
\* any owner, active or not, the oldest of them with the video of one
\* generation request each.
ListedSeries ==
    {[SeriesService_createSeries([userId |-> u, name |-> n]) EXCEPT !.isActive = a] :
        u \in Users, n \in Names, a \in BOOLEAN}
    \cup {SeriesService_createSeries([userId |-> "u1", name |-> n, description |-> "Jazz"]) :
             n \in Names}

ListedVideos(rows, has) ==
    LET with == {i \in DOMAIN rows : has[i]}
        SeriesAt(k) == CHOOSE i \in with : Cardinality({j \in with : j <= i}) = k
    IN [k \in 1..Cardinality(with) |->
          VideoService_updateVideoStatus(
              VideoService_createVideo(
                  GenerateVideoData(rows[SeriesAt(k)].userId,
                                    [seriesId |-> SeriesAt(k)], rows[SeriesAt(k)])),
              "queued", [generationProgress |-> 0])]

\* One connected account per listed series, of the series' owner: the first
\* on youtube, the others on tiktok, deactivated where the series is.
ListedAccounts(rows) ==
    [i \in DOMAIN rows |->
        [SocialAccountService_connectAccount(
             [userId |-> rows[i].userId,
              platform |-> IF i = 1 THEN "youtube" ELSE "tiktok",
              platformUserId |-> "UC1",
              accessToken |-> "at", refreshToken |-> "rt"])
           EXCEPT !.isActive = rows[i].isActive]]

InitList ==
    \E n \in 0..MaxListed :
      \E rows \in [1..n -> ListedSeries], k \in 0..n :
       LET has == [i \in 1..n |-> i <= k] IN
        /\ series = rows
        /\ seriesSeq = n
        /\ videos = ListedVideos(rows, has)
        /\ videoSeq = Cardinality({i \in 1..n : has[i]})
        /\ accounts = ListedAccounts(rows)
        /\ accountSeq = n
        /\ resp = NoResponse
        /\ served = 0
        /\ pc = [p \in Procs |-> "idle"]
        /\ req = [p \in Procs |-> <<>>]
        /\ loc = [p \in Procs |-> <<>>]
        /\ profiles = <<>>
        /\ posts = <<>>
        /\ disconnected = {}

NextList == getUserSeries \/ getUserVideos \/ getUserSocialAccounts

SpecList == InitList /\ [][NextList]_vars

----------------------------------------------------------------------------
(* The update, toggle, sync and delete handlers, store call by store call.  *)
(* Each looks its target up, compares owners, and then awaits its writes;   *)
(* other requests run between the awaits.                                   *)

GuardedSeriesOps == {"updateSeries", "toggleSeriesStatus", "deleteSeries"}
GuardedVideoOps == {"updateVideo", "deleteVideo"}
GuardedAccountOps == {"updateSocialAccount", "toggleAutoPost", "syncSocialAccount",
                      "disconnectSocialAccount"}

\* The handlers whose write is not inside a try/catch: the store's P2025 goes
\* to the exception filter, which answers 404 'Record not found'.
UncaughtOps == {"toggleSeriesStatus", "toggleAutoPost", "syncSocialAccount"}

GuardedTable(op) ==
    IF op \in GuardedSeriesOps THEN series
    ELSE IF op \in GuardedVideoOps THEN videos
    ELSE accounts

AbsentMessage(op) ==
    IF op \in GuardedSeriesOps THEN "Series not found"
    ELSE IF op \in GuardedVideoOps THEN "Video not found"
    ELSE "Social account not found"

\* The answer when the store call finds the row gone (P2025).
VanishedMessage(op) == IF op \in UncaughtOps THEN "Record not found" ELSE AbsentMessage(op)

ForbiddenMessage(op) ==
    CASE op = "updateSeries" -> "You can only update your own series"
      [] op = "toggleSeriesStatus" -> "You can only modify your own series"
      [] op = "deleteSeries" -> "You can only delete your own series"
      [] op = "updateVideo" -> "You can only update your own videos"
      [] op = "deleteVideo" -> "You can only delete your own videos"
      [] op = "updateSocialAccount" -> "You can only update your own social accounts"
      [] op = "toggleAutoPost" -> "You can only modify your own social accounts"
      [] op = "syncSocialAccount" -> "You can only sync your own social accounts"
      [] op = "disconnectSocialAccount" -> "You can only disconnect your own social accounts"

\* The lookup and the owner comparison at the start of a handler.
guarded_check(p, op, caller, id, arg) ==
    LET g == Guard(GuardedTable(op), id, caller, "NOT_FOUND", AbsentMessage(op),
                   ForbiddenMessage(op))
    IN /\ pc[p] = "idle"
       /\ req' = [req EXCEPT ![p] = [op |-> op, caller |-> caller, target |-> id,
                                     arg |-> arg]]
       /\ IF g.status = "OK"
          THEN /\ pc' = [pc EXCEPT ![p] = IF op = "updateVideo" THEN "uv_status" ELSE "write"]
               /\ loc' = [loc EXCEPT ![p] = [passed |-> TRUE]]
          ELSE /\ pc' = [pc EXCEPT ![p] = "done"]
               /\ loc' = [loc EXCEPT ![p] = [passed |-> FALSE, result |-> g]]
       /\ UNCHANGED <<stores, resp, served, userVars, disconnected>>

Done(p) ==
    /\ pc' = [pc EXCEPT ![p] = "done"]
    /\ loc' = [loc EXCEPT ![p] = @ @@ [result |-> Outcome("OK", "")]]

\* The one store write of a handler other than updateVideo.
guarded_write(p) ==
    LET op == req[p].op
        id == req[p].target
        arg == req[p].arg
    IN /\ pc[p] = "write"
       /\ IF id \in DOMAIN GuardedTable(op)
          THEN /\ series' =
                     CASE op = "updateSeries" ->
                            [series EXCEPT ![id] = SeriesService_updateSeries(@, arg)]
                       [] op = "toggleSeriesStatus" ->
                            [series EXCEPT ![id] = SeriesService_toggleSeriesStatus(@, arg)]
                       [] op = "deleteSeries" -> Remove(series, id)
                       [] OTHER -> series
               /\ videos' =
                     CASE op = "deleteSeries" -> VideosAfterSeriesDelete(videos, id)
                       [] op = "deleteVideo" -> Remove(videos, id)
                       [] OTHER -> videos
               /\ accounts' =
                     CASE op = "updateSocialAccount" ->
                            [accounts EXCEPT ![id] =
                                SocialAccountService_updateSocialAccount(@, arg)]
                       [] op = "toggleAutoPost" ->
                            [accounts EXCEPT ![id] = SocialAccountService_toggleAutoPost(@, arg)]
                       [] op = "syncSocialAccount" ->
                            [accounts EXCEPT ![id] =
                                SocialAccountService_updateAccountMetrics(@, <<>>)]
                       [] op = "disconnectSocialAccount" -> Remove(accounts, id)
                       [] OTHER -> accounts
               /\ disconnected' =
                     IF op = "disconnectSocialAccount"
                     THEN disconnected \cup {[id |-> id, userId |-> accounts[id].userId,
                                              platform |-> accounts[id].platform]}
                     ELSE disconnected
               /\ Done(p)
          ELSE /\ Fail(p, "NOT_FOUND", VanishedMessage(op))
               /\ UNCHANGED <<series, videos, accounts, disconnected>>
       /\ UNCHANGED <<seriesSeq, videoSeq, accountSeq, resp, served, userVars, req>>

\* updateVideo: videoService.updateVideoStatus when the body carries a status.
updateVideo_status(p) ==
    LET id == req[p].target
        dto == req[p].arg
    IN /\ pc[p] = "uv_status"
       /\ IF Has(dto, "status") /\ Truthy(dto.status)
          THEN IF id \in DOMAIN videos
               THEN /\ videos' = [videos EXCEPT ![id] =
                          VideoService_updateVideoStatus(@, dto.status,
                                                         UpdateVideoStatusArgs(dto))]
                    /\ pc' = [pc EXCEPT ![p] = "uv_content"]
                    /\ UNCHANGED loc
               ELSE /\ Fail(p, "NOT_FOUND", "Video not found")
                    /\ UNCHANGED videos
          ELSE /\ pc' = [pc EXCEPT ![p] = "uv_content"]
               /\ UNCHANGED <<videos, loc>>
       /\ UNCHANGED <<series, accounts, seriesSeq, videoSeq, accountSeq, resp, served,
                      userVars, disconnected, req>>

\* updateVideo: videoService.updateVideoContent when updateData is not empty.
updateVideo_content(p) ==
    LET id == req[p].target
        dto == req[p].arg
    IN /\ pc[p] = "uv_content"
       /\ IF DOMAIN UpdateVideoData(dto) # {}
          THEN IF id \in DOMAIN videos
               THEN /\ videos' = [videos EXCEPT ![id] =
                          VideoService_updateVideoContent(@, UpdateVideoData(dto))]
                    /\ pc' = [pc EXCEPT ![p] = "uv_fetch"]
                    /\ UNCHANGED loc
               ELSE /\ Fail(p, "NOT_FOUND", "Video not found")
                    /\ UNCHANGED videos
          ELSE /\ pc' = [pc EXCEPT ![p] = "uv_fetch"]
               /\ UNCHANGED <<videos, loc>>
       /\ UNCHANGED <<series, accounts, seriesSeq, videoSeq, accountSeq, resp, served,
                      userVars, disconnected, req>>

\* updateVideo: the second findVideoById and the response built from its
\* result.  On null, `(updatedVideo as any).socialPosts` throws a TypeError,
\* which the catch rethrows (it has no code) and the filter answers 500.
updateVideo_fetch(p) ==
    /\ pc[p] = "uv_fetch"
    /\ IF req[p].target \in DOMAIN videos
       THEN Done(p)
       ELSE Fail(p, "INTERNAL", "Internal server error")
    /\ UNCHANGED <<stores, resp, served, userVars, disconnected, req>>

RaceUpdateVideoDtos ==
    {[status |-> "completed"], [title |-> "Recut"], [generationProgress |-> 50]}

\* A stored series with one video and a connected account of the same owner.
InitRace ==
    \E u \in Users :
      LET s == SeriesService_createSeries([userId |-> u, name |-> "Tips"])
      IN /\ series = (1 :> s)
         /\ seriesSeq = 1
         /\ videos = (1 :> VideoService_updateVideoStatus(
                              VideoService_createVideo(
                                  GenerateVideoData(u, [seriesId |-> 1], s)),
                              "queued", [generationProgress |-> 0]))
         /\ videoSeq = 1
         /\ accounts = (1 :> SocialAccountService_connectAccount(
                                [userId |-> u, platform |-> "youtube",
                                 platformUserId |-> "UC1"]))
         /\ accountSeq = 1
         /\ resp = NoResponse
         /\ served = 0
         /\ pc = [p \in Procs |-> "idle"]
         /\ req = [p \in Procs |-> <<>>]
         /\ loc = [p \in Procs |-> <<>>]
         /\ profiles = <<>>
         /\ posts = <<>>
         /\ disconnected = {}

NextRace ==
    \/ \E p \in Procs, c \in Users :
          \/ \E dto \in {[name |-> "Tips"], [isActive |-> FALSE]} :
                guarded_check(p, "updateSeries", c, 1, dto)
          \/ guarded_check(p, "toggleSeriesStatus", c, 1, FALSE)
          \/ \E op \in {"deleteSeries", "deleteVideo", "syncSocialAccount",
                        "disconnectSocialAccount"} : guarded_check(p, op, c, 1, <<>>)
          \/ \E dto \in RaceUpdateVideoDtos : guarded_check(p, "updateVideo", c, 1, dto)
          \/ \E dto \in {[isActive |-> FALSE], [platform |-> "tiktok"]} :
                guarded_check(p, "updateSocialAccount", c, 1, dto)
          \/ guarded_check(p, "toggleAutoPost", c, 1, FALSE)
    \/ \E p \in Procs : guarded_write(p)
    \/ \E p \in Procs : updateVideo_status(p)
    \/ \E p \in Procs : updateVideo_content(p)
    \/ \E p \in Procs : updateVideo_fetch(p)
    \/ \E p \in Procs : finish(p)

SpecRace == InitRace /\ [][NextRace]_vars

----------------------------------------------------------------------------
(* UsersController: profiles.  A profile id is the id of the authenticated  *)
(* user it belongs to; createProfile draws a random one.                    *)

ProfileIds == Users \cup {"u3"}

CreateProfileDtos ==
    {[email |-> e] : e \in {"ann@x.io", "bob@x.io"}}
    \cup {[email |-> "ann@x.io", fullName |-> "Ann"]}

\* prisma.profile.create({ data }): the row is the data as given.
UserService_createProfile(data) == [f \in (DOMAIN data) \ {"id"} |-> data[f]]

\* Profile.email is a unique key of the store (findUnique({ where: { email } })).
EmailTaken(table, email) == \E id \in DOMAIN table : table[id].email = email

\* findUnique: the row found, or nothing (null).
UserService_findProfileById(table, id) == IF id \in DOMAIN table THEN <<table[id]>> ELSE <<>>

\* include: { socialAccounts: true }: the rows of the profile's social
\* accounts, every column of them.
Include_socialAccounts(table, userId) ==
    [socialAccounts |-> [i \in {j \in DOMAIN table : table[j].userId = userId} |-> table[i]]]

\* plainToClass(ProfileResponseDto, { ...profile, ... }) of the profile found.
ProfileBody(id) ==
    plainToClass(ProfileResponseDto_Exclude,
                 UserService_findProfileById(profiles, id)[1]
                   @@ Include_socialAccounts(accounts, id))

AnsweredUsers ==
    /\ served < MaxRequests
    /\ served' = served + 1
    /\ UNCHANGED <<stores, procVars, posts, disconnected>>

\* The store rejects a second row with the same email with P2002, which the
\* handler's catch turns into a BadRequestException.
createProfile ==
    /\ AnsweredUsers
    /\ \E dto \in CreateProfileDtos, id \in ProfileIds \ DOMAIN profiles :
          LET profileData == [id |-> id] @@ dto
          IN IF EmailTaken(profiles, profileData.email)
             THEN /\ resp' = [Response("createProfile", "none", 0, "BAD_REQUEST",
                                       "Profile with this email already exists")
                                EXCEPT !.arg = dto]
                  /\ UNCHANGED profiles
             ELSE /\ resp' = [Response("createProfile", "none", 0, "OK", "")
                                EXCEPT !.arg = dto]
                  /\ profiles' = profiles @@ (id :> UserService_createProfile(profileData))

getCurrentProfile ==
    /\ AnsweredUsers
    /\ \E caller \in Users :
          resp' = [(IF UserService_findProfileById(profiles, caller) = <<>>
                    THEN Response("getCurrentProfile", caller, 0, "NOT_FOUND",
                                  "Profile not found")
                    ELSE Response("getCurrentProfile", caller, 0, "OK", ""))
                     EXCEPT !.arg = IF UserService_findProfileById(profiles, caller) = <<>>
                                    THEN [id |-> caller]
                                    ELSE [id |-> caller, body |-> ProfileBody(caller)]]
    /\ UNCHANGED profiles

getProfileById ==
    /\ AnsweredUsers
    /\ \E caller \in Users, id \in ProfileIds :
          resp' = [(IF id # caller
                    THEN Response("getProfileById", caller, 0, "BAD_REQUEST",
                                  "You can only access your own profile")
                    ELSE IF UserService_findProfileById(profiles, id) = <<>>
                    THEN Response("getProfileById", caller, 0, "NOT_FOUND",
                                  "Profile not found")
                    ELSE Response("getProfileById", caller, 0, "OK", ""))
                     EXCEPT !.arg = IF id = caller /\ UserService_findProfileById(profiles, id) # <<>>
                                    THEN [id |-> id, body |-> ProfileBody(id)]
                                    ELSE [id |-> id]]
    /\ UNCHANGED profiles

NextUsers == createProfile \/ getCurrentProfile \/ getProfileById

SpecUsers == Init /\ [][NextUsers]_vars

----------------------------------------------------------------------------
(* Account analytics over the posts of the lookback window.  A JavaScript   *)
(* number that results from a division is kept as a reduced fraction;       *)
(* den = 0 stands for the non-finite results (1/0 Infinity, 0/0 NaN), which *)
(* a division by zero yields without any exception.                         *)

MaxPosts == 2
MaxViews == 2

DefaultDays == 30

RECURSIVE GCD(_, _)
GCD(a, b) == IF b = 0 THEN a ELSE GCD(b, a % b)

Fraction(n, d) ==
    IF d = 0 THEN [num |-> IF n = 0 THEN 0 ELSE 1, den |-> 0]
    ELSE [num |-> n \div GCD(n, d), den |-> d \div GCD(n, d)]

Number(n) == Fraction(n, 1)

\* a / b on non-negative integers
Divide(a, b) == Fraction(a, b)

\* x * k for a positive integer k
Times(x, k) == Fraction(x.num * k, x.den)

\* socialPosts.reduce((sum, post) => sum + post[field], 0)
RECURSIVE Reduce(_, _)
Reduce(rows, field) ==
    IF rows = <<>> THEN 0 ELSE rows[1][field] + Reduce(Tail(rows), field)

\* The include of getAccountAnalytics: the account's posts created at or
\* after startDate = now - days.
WindowPosts(table, accountId, days) ==
    LET InWindow(post) == post.socialAccountId = accountId /\ post.age <= days
    IN SelectSeq(table, InWindow)

AvgEngagement_Unguarded(totalPosts, totalViews, engagement) ==
    Times(Divide(engagement, totalViews), 100)

AvgEngagement(totalPosts, totalViews, engagement) ==
    IF totalPosts > 0 /\ totalViews > 0
    THEN Times(Divide(engagement, totalViews), 100)
    ELSE Number(0)

SocialAccountService_getAccountAnalytics(table, accountId, days) ==
    LET socialPosts == WindowPosts(table, accountId, days)
        totalPosts == Len(socialPosts)
        totalViews == Reduce(socialPosts, "viewsCount")
        totalLikes == Reduce(socialPosts, "likesCount")
        totalComments == Reduce(socialPosts, "commentsCount")
        totalShares == Reduce(socialPosts, "sharesCount")
    IN [totalPosts |-> totalPosts,
        totalViews |-> totalViews,
        totalLikes |-> totalLikes,
        totalComments |-> totalComments,
        totalShares |-> totalShares,
        avgEngagementRate |->
            AvgEngagement(totalPosts, totalViews, totalLikes + totalComments + totalShares),
        postsPerDay |-> IF days > 0 THEN Divide(totalPosts, days) ELSE Number(0)]

DaysChoices == {7, DefaultDays}

\* The analytics handler with its days parameter and the report it returns.
getAccountAnalytics ==
    /\ AnsweredOnce
    /\ \E caller \in Users, id \in AccountIds, days \in DaysChoices :
          LET g == Guard(accounts, id, caller, "NOT_FOUND", "Social account not found",
                         "You can only access your own social account analytics")
          IN resp' = [Reply("getSocialAccountAnalytics", caller, id, g)
                        EXCEPT !.arg =
                          IF g.status = "OK"
                          THEN [days |-> days,
                                metrics |-> SocialAccountService_getAccountAnalytics(
                                                posts, id, days)]
                          ELSE [days |-> days]]
    /\ UNCHANGED stores

\* likes, comments and shares of a post
Engagements == {<<0, 0, 0>>, <<1, 0, 0>>, <<2, 1, 1>>}

\* days between the creation of a post and the request
PostAges == {10, 45}

PostRows ==
    {[socialAccountId |-> a, age |-> g, viewsCount |-> v,
      likesCount |-> e[1], commentsCount |-> e[2], sharesCount |-> e[3]] :
        a \in {1, 2}, g \in PostAges, v \in 0..MaxViews, e \in Engagements}

\* Two connected accounts, one per user, and any posts on them.
InitAnalytics ==
    /\ series = <<>>
    /\ videos = <<>>
    /\ seriesSeq = 0
    /\ videoSeq = 0
    /\ accounts = [i \in {1, 2} |->
                      SocialAccountService_connectAccount(
                          [userId |-> IF i = 1 THEN "u1" ELSE "u2",
                           platform |-> "youtube",
                           platformUserId |-> IF i = 1 THEN "UC1" ELSE "UC2"])]
    /\ accountSeq = 2
    /\ resp = NoResponse
    /\ served = 0
    /\ pc = [p \in Procs |-> "idle"]
    /\ req = [p \in Procs |-> <<>>]
    /\ loc = [p \in Procs |-> <<>>]
    /\ profiles = <<>>
    /\ \E n \in 0..MaxPosts : posts \in [1..n -> PostRows]
    /\ disconnected = {}

NextAnalytics == getAccountAnalytics

SpecAnalytics == InitAnalytics /\ [][NextAnalytics]_vars

----------------------------------------------------------------------------
(* The refresh-candidate query of the token-renewal job.  A token expiry is *)
(* kept in hours from the moment of the query; a null column is an absent   *)
(* field.                                                                   *)

HoursToTomorrow == 24

\* Mutant of the query: the refreshToken condition left out.
SocialAccountService_getAccountsNeedingRefresh_AnyToken(table) ==
    {i \in DOMAIN table :
        /\ table[i].isActive
        /\ Has(table[i], "tokenExpiresAt") /\ table[i].tokenExpiresAt < HoursToTomorrow}

\* findMany where isActive, refreshToken not null, tokenExpiresAt < tomorrow;
\* a null tokenExpiresAt satisfies no comparison.
SocialAccountService_getAccountsNeedingRefresh(table) ==
    {i \in DOMAIN table :
        /\ table[i].isActive
        /\ Has(table[i], "refreshToken")
        /\ Has(table[i], "tokenExpiresAt") /\ table[i].tokenExpiresAt < HoursToTomorrow}

getAccountsNeedingRefresh ==
    /\ AnsweredOnce
    /\ resp' = [Response("getAccountsNeedingRefresh", "none", 0, "OK", "")
                  EXCEPT !.arg = [ids |-> SocialAccountService_getAccountsNeedingRefresh(accounts)]]
    /\ UNCHANGED stores

\* Connected accounts with or without a refresh token and an expiry (already
\* past, within a day, later), active or deactivated.
TokenAccounts ==
    {[SocialAccountService_connectAccount(
          [userId |-> "u1", platform |-> "youtube", platformUserId |-> "UC1",
           accessToken |-> "at"] @@ tokens) EXCEPT !.isActive = a] :
        a \in BOOLEAN,
        tokens \in {t1 @@ t2 : t1 \in {<<>>, [refreshToken |-> "rt"]},
                               t2 \in {<<>>} \cup {[tokenExpiresAt |-> h] : h \in {-5, 10, 30}}}}

InitRefresh ==
    /\ series = <<>>
    /\ videos = <<>>
    /\ seriesSeq = 0
    /\ videoSeq = 0
    /\ \E n \in 0..MaxAccounts : accounts \in [1..n -> TokenAccounts] /\ accountSeq = n
    /\ resp = NoResponse
    /\ served = 0
    /\ pc = [p \in Procs |-> "idle"]
    /\ req = [p \in Procs |-> <<>>]
    /\ loc = [p \in Procs |-> <<>>]
    /\ profiles = <<>>
    /\ posts = <<>>
    /\ disconnected = {}

NextRefresh == getAccountsNeedingRefresh

SpecRefresh == InitRefresh /\ [][NextRefresh]_vars

----------------------------------------------------------------------------
(* Generation requests against a series that carries style settings.       *)

Priorities == {"low", "normal", "high", "urgent"}

\* Bodies of a generation request: with or without a priority, with or
\* without a free-form generationSettings object (@IsObject only).
SettingsOverrides == {[style |-> "casual"], [priority |-> "asap"], [voice |-> "tenor"]}

GenerateSettingsDtos ==
    LET plain == {[seriesId |-> 1]} \cup {[seriesId |-> 1, priority |-> pr] : pr \in Priorities}
    IN plain \cup {d @@ [generationSettings |-> o] : d \in plain, o \in SettingsOverrides}

StyledSeries ==
    {SeriesService_createSeries([userId |-> "u1", name |-> "Tips"] @@ visual @@ voice @@ music) :
        visual \in {<<>>, [visualStyle |-> [palette |-> "neon", duration |-> "15s"]]},
        voice \in {<<>>, [voiceSettings |-> [voice |-> "alto"]]},
        music \in {<<>>, [musicSettings |-> [voice |-> "bass", track |-> "lofi"],
                          videoDuration |-> "60s"]}}

InitSettings ==
    /\ \E s \in StyledSeries : series = (1 :> s)
    /\ seriesSeq = 1
    /\ videos = <<>>
    /\ videoSeq = 0
    /\ accounts = <<>>
    /\ accountSeq = 0
    /\ resp = NoResponse
    /\ served = 0
    /\ pc = [p \in Procs |-> "idle"]
    /\ req = [p \in Procs |-> <<>>]
    /\ loc = [p \in Procs |-> <<>>]
    /\ profiles = <<>>
    /\ posts = <<>>
    /\ disconnected = {}

NextSettings == \E dto \in GenerateSettingsDtos : generateVideo("u1", dto)

SpecSettings == InitSettings /\ [][NextSettings]_vars

----------------------------------------------------------------------------
(* HttpExceptionFilter.  An exception is a record: kind "HttpException"     *)
(* (with its status and its getResponse() value), kind "Error" (any other   *)
(* Error, with its name, message and, for store errors, code) or kind       *)
(* "value" (something thrown that is not an Error).  getResponse() is a     *)
(* string, kept as [text |-> ...], or an object, kept as a record without   *)
(* the field text; a message that is an array of strings is kept in the     *)
(* field messages, a message that is a string in the field message.         *)

IsString(exceptionResponse) == Has(exceptionResponse, "text")

isValidationError(exceptionResponse) ==
    ~IsString(exceptionResponse) /\ Has(exceptionResponse, "messages")

\* The word at the start of a validation message (/^(\w+)\s+/), or 'unknown'.
FieldOf(message) ==
    LET Word(c) == c \notin {" ", ".", ":", "-"}
        ends == {i \in 1..(Len(message) - 1) :
                    /\ \A j \in 1..i : Word(SubSeq(message, j, j))
                    /\ SubSeq(message, i + 1, i + 1) = " "}
    IN IF ends = {} THEN "unknown"
       ELSE SubSeq(message, 1, CHOOSE i \in ends : TRUE)

createValidationErrorResponse(exceptionResponse, path) ==
    LET messages == exceptionResponse.messages
    IN [statusCode |-> 422,
        messages |-> messages,
        error |-> "Validation Error",
        path |-> path,
        details |-> [i \in 1..Len(messages) |->
                        [field |-> FieldOf(messages[i]), message |-> messages[i]]]]

createHttpErrorResponse(exception, path) ==
    LET response == exception.response
        given(f) == ~IsString(response) /\ Has(response, f)
        message == IF IsString(response) THEN [message |-> response.text]
                   ELSE IF given("messages")
                   THEN [messages |-> response.messages]
                   ELSE IF given("message") /\ Truthy(response.message)
                   THEN [message |-> response.message]
                   ELSE [message |-> exception.message]
    IN [statusCode |-> exception.status,
        error |-> IF given("error") /\ Truthy(response.error) THEN response.error
                  ELSE exception.name,
        path |-> path] @@ message

createGenericErrorResponse(statusCode, message, error, path) ==
    [statusCode |-> statusCode, message |-> message, error |-> error, path |-> path]

PrismaErrorNames ==
    {"PrismaClientKnownRequestError", "PrismaClientUnknownRequestError",
     "PrismaClientValidationError", "PrismaClientInitializationError"}

\* Mutant of isPrismaError: a store error recognised by its code.
isPrismaError_ByCode(exception) == exception.kind = "Error" /\ Has(exception, "code")

isPrismaError(exception) == exception.kind = "Error" /\ exception.name \in PrismaErrorNames

handlePrismaError(error) ==
    LET code == IF Has(error, "code") THEN error.code ELSE "undefined"
    IN CASE code = "P2000" ->
              [status |-> 400, message |-> "The provided value for the column is too long"]
         [] code = "P2002" ->
              [status |-> 409,
               message |-> "A record with this "
                             \o (IF Has(error, "target") THEN error.target ELSE "field")
                             \o " already exists"]
         [] code = "P2014" ->
              [status |-> 400,
               message |-> "The change would violate the required relation constraint"]
         [] code = "P2003" -> [status |-> 400, message |-> "Foreign key constraint failed"]
         [] code = "P2025" -> [status |-> 404, message |-> "Record not found"]
         [] code = "P2016" -> [status |-> 400, message |-> "Query interpretation error"]
         [] code = "P2021" ->
              [status |-> 500, message |-> "The table does not exist in the current database"]
         [] code = "P2022" ->
              [status |-> 500, message |-> "The column does not exist in the current database"]
         [] OTHER -> [status |-> 500, message |-> "Database operation failed"]

\* catch: the status the response is sent with and its JSON body.
HttpExceptionFilter_catch(exception, path) ==
    IF exception.kind = "HttpException"
    THEN [status |-> exception.status,
          body |-> IF exception.status = 400 /\ isValidationError(exception.response)
                   THEN createValidationErrorResponse(exception.response, path)
                   ELSE createHttpErrorResponse(exception, path)]
    ELSE IF isPrismaError(exception)
    THEN LET prismaError == handlePrismaError(exception)
         IN [status |-> prismaError.status,
             body |-> createGenericErrorResponse(prismaError.status, prismaError.message,
                                                 "Database Error", path)]
    ELSE [status |-> 500,
          body |-> createGenericErrorResponse(500, "Internal server error",
                                              "Internal Server Error", path)]

\* What a handler, a pipe or a guard can throw.
Exceptions ==
    LET http ==
          {[kind |-> "HttpException", name |-> n, status |-> st, message |-> "Http Exception",
            response |-> r] :
              n \in {"HttpException", "BadRequestException"},
              st \in {400, 401, 403, 404, 409, 422},
              r \in {[text |-> "Series not found"],
                     [message |-> "Series not found", error |-> "Not Found"],
                     [messages |-> <<"email must be an email", "oops">>,
                      error |-> "Bad Request"],
                     [messages |-> <<>>],
                     [statusCode |-> 400]}}
        errors ==
          {[kind |-> "Error", name |-> n, message |-> m] @@ c :
              n \in PrismaErrorNames \cup {"TypeError", "PrismaClientRustPanicError"},
              m \in {"Cannot read properties of null", "password hunter2 rejected"},
              c \in {<<>>, [code |-> "P2002", target |-> "email"]}
                    \cup {[code |-> k] : k \in {"P2000", "P2002", "P2014", "P2003", "P2025",
                                                "P2016", "P2021", "P2022", "P1001"}}}
    IN http \cup errors \cup {[kind |-> "value", value |-> "boom"]}

\* A request that ends in an exception.
exceptionThrown ==
    /\ AnsweredOnce
    /\ \E exception \in Exceptions, caller \in Users :
          resp' = [Response("exception", caller, 0, "ERROR", "")
                     EXCEPT !.arg = [exception |-> exception]
                                    @@ HttpExceptionFilter_catch(exception, "/api/v1/series")]
    /\ UNCHANGED stores

NextFilter == exceptionThrown

SpecFilter == Init /\ [][NextFilter]_vars

----------------------------------------------------------------------------
(* The response bodies of the endpoints that read social accounts, over     *)
(* stores whose accounts hold tokens.                                       *)

\* Both users have a profile, and up to MaxAccounts accounts are connected,
\* of either user, each with an access token and with or without a refresh
\* token.
InitTokens ==
    /\ series = <<>>
    /\ videos = <<>>
    /\ seriesSeq = 0
    /\ videoSeq = 0
    /\ \E n \in 0..MaxAccounts :
          /\ accounts \in [1..n -> {SocialAccountService_connectAccount(
                                       [userId |-> u, platform |-> "youtube",
                                        platformUserId |-> "UC1", accessToken |-> "at"] @@ t) :
                                    u \in Users, t \in {<<>>, [refreshToken |-> "rt"]}}]
          /\ accountSeq = n
    /\ resp = NoResponse
    /\ served = 0
    /\ pc = [p \in Procs |-> "idle"]
    /\ req = [p \in Procs |-> <<>>]
    /\ loc = [p \in Procs |-> <<>>]
    /\ profiles = [u \in Users |-> UserService_createProfile([id |-> u, email |-> "ann@x.io"])]
    /\ posts = <<>>
    /\ disconnected = {}

NextTokens ==
    \/ \E c \in Users, id \in AccountIds : getSocialAccountById(c, id)
    \/ getUserSocialAccounts
    \/ getCurrentProfile
    \/ getProfileById

SpecTokens == InitTokens /\ [][NextTokens]_vars

----------------------------------------------------------------------------
(* Properties.  A step of Spec that answers a request adds one to served    *)
(* and leaves the answer in resp, so resp' is the answer of that step and   *)
(* the unprimed tables are the store the request found.                     *)

Handled(op) == served' = served + 1 /\ resp'.op = op

InactiveMessage == "Cannot generate videos for inactive series"

\* C1: a generation request by the owner of a series whose isActive is false
\* is answered BAD_REQUEST ("Cannot generate videos for inactive series") and
\* writes nothing: no video row, no counter, no other column changes.
C1_InactiveSeriesRejected ==
    [][(/\ Handled("generateVideo")
        /\ resp'.target \in DOMAIN series
        /\ series[resp'.target].userId = resp'.caller
        /\ ~series[resp'.target].isActive)
       => (/\ resp'.status = "BAD_REQUEST"
           /\ resp'.message = InactiveMessage
           /\ stores' = stores)]_vars

C1_Witness ==
    /\ resp.op = "generateVideo"
    /\ resp.status = "BAD_REQUEST"
    /\ resp.message = InactiveMessage
    /\ resp.target \in DOMAIN series
    /\ series[resp.target].userId = resp.caller
    /\ ~series[resp.target].isActive
    /\ videos = <<>>

\* The active accounts of one user for one platform.
ActiveAccounts(table, userId, platform) ==
    {i \in DOMAIN table : /\ table[i].userId = userId
                          /\ table[i].platform = platform
                          /\ table[i].isActive}

\* C2: a connect request by a user for a platform on which that user already
\* has an active account is answered CONFLICT; no row is created and the
\* existing rows are unchanged.
C2_ConnectConflict ==
    [][(/\ Handled("connectSocialAccount")
        /\ ActiveAccounts(accounts, resp'.caller, resp'.arg.platform) # {})
       => (/\ resp'.status = "CONFLICT"
           /\ stores' = stores)]_vars

C2_Witness ==
    /\ resp.op = "connectSocialAccount"
    /\ resp.status = "CONFLICT"
    /\ resp.message = resp.arg.platform \o
                      " account is already connected. Disconnect the existing one first."
    /\ ActiveAccounts(accounts, resp.caller, resp.arg.platform) # {}
    /\ \A i \in DOMAIN accounts : accounts[i].platformUserId # resp.arg.platformUserId

\* C3: at every moment a user has at most one active account per platform.
C3_OneActivePerPlatform ==
    \A u \in Users, pl \in Platforms :
        Cardinality(ActiveAccounts(accounts, u, pl)) <= 1

\* The operations that name a series, a video or a social account by id and
\* pass it through the ownership guard.
SeriesOps == {"getSeriesById", "updateSeries", "toggleSeriesStatus",
              "deleteSeries", "getSeriesAnalytics"}
VideoOps == {"getVideoById", "updateVideo", "deleteVideo"}
AccountOps == {"getSocialAccountById", "updateSocialAccount", "toggleAutoPost",
               "syncSocialAccount", "disconnectSocialAccount",
               "getSocialAccountAnalytics"}
SeriesTargetOps == {"createVideo", "generateVideo"}

\* The table in which an operation looks its target up.
TableOf(op) ==
    IF op \in SeriesOps \cup SeriesTargetOps THEN series
    ELSE IF op \in VideoOps THEN videos
    ELSE accounts

\* The answering step found its target and the target belongs to someone else.
ForeignTarget ==
    /\ resp'.target \in DOMAIN TableOf(resp'.op)
    /\ TableOf(resp'.op)[resp'.target].userId # resp'.caller

\* The answering step found no row for its target.
AbsentTarget == resp'.target \notin DOMAIN TableOf(resp'.op)

\* C4: get-by-id, update, toggle, sync, analytics and delete on an existing
\* series, video or social account owned by someone other than the caller are
\* answered FORBIDDEN, whatever the row holds, and leave the store unchanged.
C4_ForeignForbidden ==
    [][(/\ served' = served + 1
        /\ resp'.op \in SeriesOps \cup VideoOps \cup AccountOps
        /\ ForeignTarget)
       => (resp'.status = "FORBIDDEN" /\ stores' = stores)]_vars

C4_Witness ==
    /\ resp.op = "updateVideo"
    /\ resp.status = "FORBIDDEN"
    /\ resp.target \in DOMAIN videos
    /\ videos[resp.target].userId # resp.caller
    /\ videos[resp.target].status = "queued"

\* C5, as stated: every operation that names a series, video or social
\* account by id, createVideo and generateVideo included, answers an absent id
\* with NOT_FOUND and an existing row of another user with FORBIDDEN.
C5_AsStated ==
    [][(/\ served' = served + 1
        /\ resp'.op \in SeriesOps \cup VideoOps \cup AccountOps \cup SeriesTargetOps)
       => (/\ AbsentTarget => resp'.status = "NOT_FOUND"
           /\ ForeignTarget => resp'.status = "FORBIDDEN")]_vars

\* C5: existence is checked before ownership.  An absent id is answered
\* NOT_FOUND for every caller, except by createVideo and generateVideo, which
\* answer an absent series with BAD_REQUEST ("Series not found"); an existing
\* row of another user is answered FORBIDDEN by all of them, never NOT_FOUND.
C5_ExistenceBeforeOwnership ==
    [][(/\ served' = served + 1
        /\ resp'.op \in SeriesOps \cup VideoOps \cup AccountOps \cup SeriesTargetOps)
       => (/\ AbsentTarget =>
                 IF resp'.op \in SeriesTargetOps
                 THEN resp'.status = "BAD_REQUEST" /\ resp'.message = "Series not found"
                 ELSE resp'.status = "NOT_FOUND"
           /\ ForeignTarget => resp'.status = "FORBIDDEN")]_vars

C5_Witness ==
    /\ resp.op = "generateVideo"
    /\ resp.status = "BAD_REQUEST"
    /\ resp.message = "Series not found"
    /\ resp.target \notin DOMAIN series
    /\ seriesSeq >= resp.target

\* C6: a generation request that succeeds, with no other request between its
\* store calls, on a series whose totalVideosGenerated is N: the series is the
\* caller's and active, exactly one video row is added (the others unchanged),
\* for that series and caller, with status "queued" and generationProgress 0,
\* and the series' totalVideosGenerated becomes N + 1.
C6_GenerateQueuesOne ==
    [][(Handled("generateVideo") /\ resp'.status = "OK")
       => LET sid == resp'.target
              vid == videoSeq'
          IN /\ series[sid].userId = resp'.caller
             /\ series[sid].isActive
             /\ videoSeq' = videoSeq + 1
             /\ DOMAIN videos' = DOMAIN videos \cup {vid}
             /\ vid \notin DOMAIN videos
             /\ \A i \in DOMAIN videos : videos'[i] = videos[i]
             /\ videos'[vid].seriesId = sid
             /\ videos'[vid].userId = resp'.caller
             /\ videos'[vid].status = "queued"
             /\ videos'[vid].generationProgress = 0
             /\ series'[sid].totalVideosGenerated = series[sid].totalVideosGenerated + 1
             /\ series'[sid].totalViews = series[sid].totalViews
             /\ series'[sid].totalLikes = series[sid].totalLikes]_vars

C6_Witness ==
    /\ resp.op = "generateVideo"
    /\ resp.status = "OK"
    /\ videoSeq \in DOMAIN videos
    /\ videos[videoSeq].status = "queued"
    /\ videos[videoSeq].generationProgress = 0
    /\ videos[videoSeq].seriesId = resp.target
    /\ resp.target \in DOMAIN series
    /\ series[resp.target].totalVideosGenerated = 2
    /\ Cardinality(DOMAIN videos) = 2

\* The default title of a generated video, from the series the request read.
DefaultTitle(s) == s.name \o " Episode " \o ToString(s.totalVideosGenerated + 1)

\* C7, as stated: the title of a generated video is the topic whenever the
\* request carries one, and "<series name> Episode <N+1>" when it carries none.
C7_AsStated ==
    [][(Handled("generateVideo") /\ resp'.status = "OK")
       => videos'[videoSeq'].title =
             IF Has(resp'.arg, "topic") THEN resp'.arg.topic
             ELSE DefaultTitle(series[resp'.target])]_vars

\* C7: the title of a generated video is the topic when the request carries a
\* non-empty one; when it carries no topic, or the empty string, the title is
\* "<series name> Episode <N+1>", N the totalVideosGenerated the request read.
C7_TitleDefault ==
    [][(Handled("generateVideo") /\ resp'.status = "OK")
       => videos'[videoSeq'].title =
             IF Has(resp'.arg, "topic") /\ resp'.arg.topic # "" THEN resp'.arg.topic
             ELSE DefaultTitle(series[resp'.target])]_vars

C7_Witness ==
    /\ resp.op = "generateVideo"
    /\ resp.status = "OK"
    /\ Has(resp.arg, "topic")
    /\ resp.arg.topic = ""
    /\ videoSeq \in DOMAIN videos
    /\ videos[videoSeq].title = "Tips Episode 2"

\* A call of updateSeriesStats by process p that takes the default count.
DefaultCountCall(p) ==
    /\ req[p] # <<>>
    /\ req[p].op = "updateSeriesStats"
    /\ ~Has(req[p].stats, "totalVideosGenerated")

\* C8: a call of updateSeriesStats on an existing series that supplies no
\* totalVideosGenerated, the row being as the call read it when it writes (its
\* prior value): afterwards totalVideosGenerated is the prior value + 1, and
\* totalViews and totalLikes are the supplied value if one was supplied and
\* the prior value otherwise.  Hence two such calls in a row add 2.
C8_DefaultIncrement ==
    [][\A p \in Procs :
         (/\ pc[p] = "stats_update"
          /\ pc'[p] = "done"
          /\ DefaultCountCall(p)
          /\ req[p].seriesId \in DOMAIN series
          /\ StatsCurrent(series[req[p].seriesId]) = loc[p].current)
         => LET id == req[p].seriesId
                st == req[p].stats
            IN /\ loc'[p].result.status = "OK"
               /\ series'[id].totalVideosGenerated = series[id].totalVideosGenerated + 1
               /\ series'[id].totalViews =
                     IF Has(st, "totalViews") THEN st.totalViews ELSE series[id].totalViews
               /\ series'[id].totalLikes =
                     IF Has(st, "totalLikes") THEN st.totalLikes ELSE series[id].totalLikes]_vars

C8_Witness ==
    /\ pc["p1"] = "done" /\ pc["p2"] = "done"
    /\ DefaultCountCall("p1") /\ DefaultCountCall("p2")
    /\ req["p1"].stats = <<>> /\ req["p2"].stats = <<>>
    /\ req["p1"].seriesId = req["p2"].seriesId
    /\ loc["p1"].current.totalVideosGenerated = 0
    /\ loc["p2"].current.totalVideosGenerated = 1
    /\ loc["p1"].result.status = "OK" /\ loc["p2"].result.status = "OK"
    /\ series[req["p1"].seriesId].totalVideosGenerated = 2

\* C9: from one state to the next no series' totalVideosGenerated, totalViews
\* or totalLikes decreases, generation requests on one series interleaved.
C9_CountersNeverDecrease ==
    [][\A id \in DOMAIN series \cap DOMAIN series' :
          /\ series'[id].totalVideosGenerated >= series[id].totalVideosGenerated
          /\ series'[id].totalViews >= series[id].totalViews
          /\ series'[id].totalLikes >= series[id].totalLikes]_vars

\* Both calls of updateSeriesStats have returned, both took the default count
\* on the same series, and both read the same totalVideosGenerated.
BothReadTheSame ==
    /\ pc["p1"] = "done" /\ pc["p2"] = "done"
    /\ DefaultCountCall("p1") /\ DefaultCountCall("p2")
    /\ req["p1"].seriesId = req["p2"].seriesId
    /\ Has(loc["p1"], "current") /\ Has(loc["p2"], "current")
    /\ Has(loc["p1"], "result") /\ Has(loc["p2"], "result")
    /\ loc["p1"].result.status = "OK" /\ loc["p2"].result.status = "OK"
    /\ loc["p1"].current.totalVideosGenerated = loc["p2"].current.totalVideosGenerated

\* C10: two concurrent calls of updateSeriesStats on one series, neither
\* supplying a count, may read the same totalVideosGenerated v; when they do,
\* each writes v + 1 and after both have returned the stored count is v + 1,
\* not v + 2: one of the two updates is lost.
C10_LostUpdate ==
    BothReadTheSame =>
        series[req["p1"].seriesId].totalVideosGenerated =
            loc["p1"].current.totalVideosGenerated + 1

C10_Witness ==
    /\ BothReadTheSame
    /\ req["p1"].stats = <<>> /\ req["p2"].stats = <<>>
    /\ loc["p1"].current.totalVideosGenerated = 1
    /\ series[req["p1"].seriesId].totalVideosGenerated = 2

\* The body of the list response just answered.
ListBody == resp.arg.body

\* C11: in every answer of the series list and the video list (page >= 1,
\* limit >= 1), meta.totalPages is the least n with n * limit >= meta.total
\* (the ceiling of total / limit), meta.hasNext is page < totalPages,
\* meta.hasPrev is page > 1, and at most limit items are returned.
C11_PaginationMeta ==
    resp.op \in {"getUserSeries", "getUserVideos"} =>
        LET meta == ListBody.meta
        IN /\ meta.page >= 1 /\ meta.limit >= 1
           /\ meta.totalPages * meta.limit >= meta.total
           /\ meta.totalPages >= 0
           /\ meta.totalPages > 0 => (meta.totalPages - 1) * meta.limit < meta.total
           /\ meta.hasNext = (meta.page < meta.totalPages)
           /\ meta.hasPrev = (meta.page > 1)
           /\ Len(ListBody.data) <= meta.limit

C11_Witness ==
    /\ resp.op = "getUserSeries"
    /\ ListBody.meta.total = 3
    /\ ListBody.meta.limit = 2
    /\ ListBody.meta.page = 2
    /\ ListBody.meta.totalPages = 2
    /\ ~ListBody.meta.hasNext
    /\ ListBody.meta.hasPrev
    /\ Len(ListBody.data) = 1

\* C12: in every state each video row references a series that exists and
\* that has the video's owner as its owner.
C12_VideoSeriesSameOwner ==
    \A v \in DOMAIN videos :
        /\ videos[v].seriesId \in DOMAIN series
        /\ series[videos[v].seriesId].userId = videos[v].userId

C12_Witness ==
    /\ resp.op = "createVideo"
    /\ resp.status = "FORBIDDEN"
    /\ Cardinality(DOMAIN videos) = 1
    /\ \A v \in DOMAIN videos : series[videos[v].seriesId].userId = videos[v].userId

\* The rows of a table present before and after a step keep their owner, and
\* the rows a step adds belong to the caller it answers.
OwnersKept(before, after) ==
    /\ \A id \in DOMAIN before \cap DOMAIN after : after[id].userId = before[id].userId
    /\ \A id \in DOMAIN after \ DOMAIN before : after[id].userId = resp'.caller

\* C13: the owning user id of a series, video or social account is the id of
\* the caller that created it, and no later request (update, toggle, status,
\* stats, sync) changes it.
C13_OwnerNeverChanges ==
    [][/\ OwnersKept(series, series')
       /\ OwnersKept(videos, videos')
       /\ OwnersKept(accounts, accounts')]_vars

C13_Witness ==
    /\ resp.op = "updateSocialAccount"
    /\ resp.status = "OK"
    /\ resp.target \in DOMAIN accounts
    /\ accounts[resp.target].userId = resp.caller
    /\ accounts[resp.target].platform = "tiktok"
    /\ accounts[resp.target].lastSyncAt = "date"
    /\ \E s \in DOMAIN series : series[s].userId # resp.caller

\* The user holds no account on the platform.
NoAccountOn(table, userId, platform) ==
    \A i \in DOMAIN table : ~(table[i].userId = userId /\ table[i].platform = platform)

C15_VanishedIsNotFound ==
    \A p \in Procs :
        (pc[p] = "done" /\ loc[p].passed) => loc[p].result.status \in {"OK", "NOT_FOUND"}

\* C16: an update of a video by its owner that supplies a status S, alone or
\* together with other fields, is accepted whatever the stored status is and
\* leaves the stored status equal to S.
C16_StatusStored ==
    [][\A c \in Users, id \in DOMAIN videos, dto \in UpdateVideoDtos :
          (/\ updateVideo(c, id, dto)
           /\ videos[id].userId = c
           /\ Has(dto, "status"))
            => resp'.status = "OK" /\ videos'[id].status = dto.status]_vars

\* C17: an update of a video by its owner that supplies only generationProgress
\* (or only errorMessage) stores that value and leaves the other two of
\* status, generationProgress and errorMessage unchanged.
C17_IndependentFields ==
    [][\A c \in Users, id \in DOMAIN videos, dto \in UpdateVideoDtos :
          (/\ updateVideo(c, id, dto)
           /\ videos[id].userId = c
           /\ \E f \in {"generationProgress", "errorMessage"} : DOMAIN dto = {f})
            => \A f \in {"status", "generationProgress", "errorMessage"} :
                  videos'[id][f] = IF Has(dto, f) THEN dto[f] ELSE videos[id][f]]_vars

\* C18: creating a profile whose email equals the email of an existing profile
\* fails with CONFLICT (409) and creates no profile row.
C18_DuplicateEmailConflict ==
    [][(Handled("createProfile") /\ EmailTaken(profiles, resp'.arg.email))
         => resp'.status = "CONFLICT" /\ profiles' = profiles]_vars

\* C20: getProfileById with a path id different from the caller's id is
\* answered FORBIDDEN (403) whether or not a profile with that id exists; with
\* the caller's own id it returns the profile, or NOT_FOUND when there is none.
C20_ProfileSelfAccess ==
    [][Handled("getProfileById")
         => resp'.status = IF resp'.arg.id # resp'.caller THEN "FORBIDDEN"
                           ELSE IF resp'.arg.id \in DOMAIN profiles THEN "OK"
                           ELSE "NOT_FOUND"]_vars

InWindow(accountId, days) ==
    {i \in DOMAIN posts : posts[i].socialAccountId = accountId /\ posts[i].age <= days}

RECURSIVE Total(_, _)
Total(S, field) ==
    IF S = {} THEN 0
    ELSE LET i == CHOOSE i \in S : TRUE IN posts[i][field] + Total(S \ {i}, field)

\* C19: the account analytics report avgEngagementRate = 0 whenever the views
\* of the posts in the lookback window total 0 (also when there is no post),
\* and otherwise (likes + comments + shares) / views * 100 over the window
\* totals; the rate is always a finite number.
C19_EngagementRate ==
    (resp.op = "getSocialAccountAnalytics" /\ resp.status = "OK") =>
        LET W == InWindow(resp.target, resp.arg.days)
            views == Total(W, "viewsCount")
            engagement == Total(W, "likesCount") + Total(W, "commentsCount")
                            + Total(W, "sharesCount")
            rate == resp.arg.metrics.avgEngagementRate
        IN /\ rate.den > 0
           /\ IF views = 0 THEN rate.num = 0
              ELSE rate.num * views = engagement * 100 * rate.den

C19_Witness ==
    /\ resp.op = "getSocialAccountAnalytics" /\ resp.status = "OK"
    /\ resp.arg.metrics.totalPosts > 0
    /\ resp.arg.metrics.totalViews = 0
    /\ resp.arg.metrics.totalLikes > 0
    /\ resp.arg.metrics.avgEngagementRate = Number(0)

Answer == resp.arg.ids

\* C22 as stated: the refresh-candidate query returns exactly the accounts
\* that hold a refresh token and whose stored expiry lies within the next 24
\* hours.
C22_AsStated ==
    resp.op = "getAccountsNeedingRefresh" =>
        Answer = {i \in DOMAIN accounts :
                    /\ Has(accounts[i], "refreshToken")
                    /\ Has(accounts[i], "tokenExpiresAt")
                    /\ accounts[i].tokenExpiresAt >= 0
                    /\ accounts[i].tokenExpiresAt < 24}

\* C22, amended: the refresh-candidate query returns exactly the active
\* accounts that hold a refresh token and whose stored expiry is earlier than
\* 24 hours from now, already expired tokens included; an account with no
\* refresh token or with no stored expiry is never returned.
C22_RefreshCandidates ==
    resp.op = "getAccountsNeedingRefresh" =>
        \A i \in DOMAIN accounts :
            i \in Answer <=>
                /\ accounts[i].isActive
                /\ "refreshToken" \in DOMAIN accounts[i]
                /\ "tokenExpiresAt" \in DOMAIN accounts[i]
                /\ accounts[i].tokenExpiresAt - 24 < 0

C22_Witness ==
    /\ resp.op = "getAccountsNeedingRefresh"
    /\ \E i \in Answer : accounts[i].tokenExpiresAt < 0
    /\ \E i \in DOMAIN accounts \ Answer :
          /\ ~accounts[i].isActive
          /\ Has(accounts[i], "refreshToken")
          /\ Has(accounts[i], "tokenExpiresAt") /\ accounts[i].tokenExpiresAt = 10

\* C23: the generation settings stored by a generation request hold, for
\* every key, the value of the last of these sources that has the key: series
\* visual settings, voice settings, music settings, the series' duration,
\* style and useTrending, the priority tag, the request-level overrides; and
\* the stored priority is the request's priority, or 'normal' when the request
\* has none, and one of low, normal, high, urgent.
C23_SettingsMerge ==
    [][(Handled("generateVideo") /\ resp'.status = "OK") =>
         LET dto == resp'.arg
             s == series[dto.seriesId]
             stored == videos'[videoSeq'].generationSettings
             sources == <<JsonColumn(s, "visualStyle"), JsonColumn(s, "voiceSettings"),
                          JsonColumn(s, "musicSettings"),
                          [duration |-> Column(s, "videoDuration"),
                           style |-> Column(s, "contentStyle"),
                           useTrending |-> Column(s, "useTrendingTopics")],
                          [priority |-> IF Has(dto, "priority") THEN dto.priority
                                        ELSE "normal"],
                          JsonColumn(dto, "generationSettings")>>
             Last(k) == CHOOSE i \in 1..6 :
                           /\ k \in DOMAIN sources[i]
                           /\ \A j \in (i + 1)..6 : k \notin DOMAIN sources[j]
         IN /\ DOMAIN stored = UNION {DOMAIN sources[i] : i \in 1..6}
            /\ \A k \in DOMAIN stored : stored[k] = sources[Last(k)][k]
            /\ stored.priority = IF Has(dto, "priority") THEN dto.priority ELSE "normal"
            /\ stored.priority \in {"low", "normal", "high", "urgent"}]_vars

Unrecognised(exception) ==
    /\ exception.kind # "HttpException"
    /\ ~(exception.kind = "Error" /\ exception.name \in PrismaErrorNames)

\* C24: a failure that is neither an HTTP exception nor a recognised store
\* error is answered with status 500 and the message 'Internal server error',
\* and no text field of the body is text of the exception (its message, its
\* name, its code or the thrown value).
C24_GenericInternalError ==
    (resp.op = "exception" /\ Unrecognised(resp.arg.exception)) =>
        LET e == resp.arg.exception
            body == resp.arg.body
            texts == {e[f] : f \in (DOMAIN e) \ {"kind"}}
        IN /\ resp.arg.status = 500
           /\ body.statusCode = 500
           /\ body.message = "Internal server error"
           /\ DOMAIN body = {"statusCode", "message", "error", "path"}
           /\ body.error \notin texts
           /\ body.path \notin texts

C24_Witness ==
    /\ resp.op = "exception"
    /\ resp.arg.exception.kind = "Error"
    /\ resp.arg.exception.name = "TypeError"
    /\ Has(resp.arg.exception, "code") /\ resp.arg.exception.code = "P2025"
    /\ resp.arg.exception.message = "password hunter2 rejected"
    /\ resp.arg.body.message = "Internal server error"

\* C30: in every error response of the exception filter the statusCode of the
\* body equals the HTTP status the response is sent with, also for validation
\* failures, which the body reports as 422 'Validation Error' with a details
\* array.
C30_StatusCodeMatches ==
    resp.op = "exception" =>
        /\ resp.arg.body.statusCode = resp.arg.status
        /\ (resp.arg.exception.kind = "HttpException"
              /\ resp.arg.exception.status = 400
              /\ isValidationError(resp.arg.exception.response))
             => /\ resp.arg.body.statusCode = 422
                /\ resp.arg.body.error = "Validation Error"
                /\ Has(resp.arg.body, "details")

\* C25: an update of a video by its owner with metadata fields only (no
\* status) leaves the video's stored status and generationProgress as they
\* were, whatever the status was.
C25_MetadataOnlyFrame ==
    [][\A c \in Users, id \in DOMAIN videos, dto \in UpdateVideoDtos :
          (/\ updateVideo(c, id, dto)
           /\ videos[id].userId = c
           /\ DOMAIN dto = {"title"})
            => /\ videos'[id].status = videos[id].status
               /\ videos'[id].generationProgress = videos[id].generationProgress]_vars

\* C26: under every interleaving of a generation request with other requests
\* on the same series, the step of the generation request that creates the
\* video row is taken only while the series' stored isActive is true.
C26_NoVideoWhileInactive ==
    [][\A p \in Procs :
          (pc[p] = "gv_create" /\ pc'[p] = "gv_queue" /\ videoSeq' = videoSeq + 1)
            => /\ req[p].seriesId \in DOMAIN series
               /\ series[req[p].seriesId].isActive]_vars

\* C27: a generation request that has completed, with success or with an
\* error, has made all three of its writes (video row created, status set to
\* 'queued', series counter written) or none of them.
C27_GenerateAllOrNothing ==
    \A p \in Procs :
        (pc[p] = "done" /\ req[p].op = "generateVideo") =>
            \/ loc[p].result.status = "OK" /\ Has(loc[p], "video") /\ Has(loc[p], "current")
            \/ loc[p].result.status # "OK" /\ ~Has(loc[p], "video")

\* The token values a response body holds at its top level.
TokensOf(dto) == {dto[f] : f \in (DOMAIN dto) \cap {"accessToken", "refreshToken"}}

\* C28: no response body holds the accessToken or refreshToken value of a
\* social account: not the body of a social-account endpoint, and not the
\* body of GET users/me or GET users/:id, whose profile query includes the
\* user's social accounts.
C28_NoTokenInResponse ==
    (resp.status = "OK" /\ Has(resp.arg, "body")) =>
        CASE resp.op = "getSocialAccountById" -> TokensOf(resp.arg.body) = {}
          [] resp.op = "getUserSocialAccounts" ->
                \A k \in DOMAIN resp.arg.body : TokensOf(resp.arg.body[k]) = {}
          [] resp.op \in {"getCurrentProfile", "getProfileById"} ->
                /\ TokensOf(resp.arg.body) = {}
                /\ Has(resp.arg.body, "socialAccounts") =>
                      \A i \in DOMAIN resp.arg.body.socialAccounts :
                          TokensOf(resp.arg.body.socialAccounts[i]) = {}
          [] OTHER -> TRUE

\* The part of C28 about the social-account endpoints.
C28_SocialEndpointsOnly ==
    (resp.status = "OK" /\ resp.op \in {"getSocialAccountById", "getUserSocialAccounts"})
        => C28_NoTokenInResponse

\* C29: every entity a list operation returns (series list, video list,
\* social-account list) is owned by the caller, whatever the query and
\* whatever other users' entities are stored.
C29_ListsOnlyOwn ==
    /\ resp.op = "getUserSeries" =>
          \A k \in DOMAIN resp.arg.body.data : series[resp.arg.body.data[k]].userId = resp.caller
    /\ resp.op = "getUserVideos" =>
          \A k \in DOMAIN resp.arg.body.data : videos[resp.arg.body.data[k]].userId = resp.caller
    /\ resp.op = "getUserSocialAccounts" =>
          \A k \in DOMAIN resp.arg.body :
              /\ resp.arg.body[k].userId = resp.caller
              /\ accounts[resp.arg.body[k].id].userId = resp.caller

C29_Witness ==
    /\ resp.op = "getUserSocialAccounts"
    /\ Has(resp.arg.query, "platform") /\ Has(resp.arg.query, "isActive")
    /\ Len(resp.arg.body) > 0
    /\ \E i \in DOMAIN accounts : accounts[i].userId # resp.caller
    /\ \E i \in DOMAIN series : series[i].userId # resp.caller
    /\ \E i \in DOMAIN videos : videos[i].userId # resp.caller

============================================================================
